---------------------------- MODULE Spec2Model ----------------------------
(***************************************************************************)
(* A model of the autotuner's control plane: the parameter model, the      *)
(* bounded ranking, the exhaustive and the genetic strategy loops of       *)
(* Autotuner::run, the compile-on-demand evaluation and the SIGQUIT cancel *)
(* protocol with its checkpoint and resume.                                *)
(***************************************************************************)
EXTENDS Integers, Sequences, FiniteSets, TLC

VARIABLES
    direction,      \* configuration.direction: "Minimize" | "Maximize"
    criterion,      \* configuration.criterion: "Maximum" | "Minimum" | "Median"
    profile,        \* configuration.profile: the Specifications in key order
    hooks,          \* configuration.hooks.pre: the names of the pre-hooks
    post,           \* configuration.hooks.post: the names of the post-hooks
    repetition,     \* the -r option: runner calls per evaluation
    kernel,         \* environment: what the runner measures or does
    ranking,        \* Ranking {heap, capacity}
    pushed,         \* history: every fitness handed to Ranking::push, in order
    lastBest,       \* history: what the last best() call returned, and when
    output,         \* what run returned: First(results) or Second(Checkpoint)
    pc,             \* the control thread's position in Autotuner::run
    blocked,        \* SIGQUIT is in the thread's signal mask
    pending,        \* a SIGQUIT was raised while blocked and is not yet delivered
    is_canceled,    \* the flag the SIGQUIT handler sets
    files,          \* <tempdir>/individuals: the shared objects compiled so far
    lastEval,       \* history: the last evaluate call (individual, compile, run)
    evaluated,      \* history: the parameter maps evaluated, over all runs
    runs,           \* history: number of times the program was started
    state,          \* the strategy State (exhaustive iterator or genetic state)
    individual,     \* exhaustive: the loop variable of `for individual in &mut state`
    count,          \* exhaustive: the progress counter
    config,         \* genetic: the Options of configuration.strategy
    options,        \* genetic: run's working copy of the Options, stepped
    temp_results,   \* genetic: population index -> fitness of the child put there
    best_overall,   \* genetic: best generation-best so far
    evaluation_results, \* genetic: <<fitness, index>> of this generation
    len,            \* genetic: population length at the start of the evaluation
    index,          \* genetic: the loop index (evaluation loop, child loop)
    holes,          \* genetic: population indices chosen for replacement
    children,       \* genetic: the children bred in this generation
    child,          \* genetic: the child being bred and evaluated
    history,        \* genetic: output.history, the GenerationSummaries
    sinceCheck,     \* history: guarded bodies run since the flag was last read (0..2)
    observed,       \* history: a check has read the flag set in this run
    best_ever,      \* history: the best generation-best summarized, over all runs
    helper          \* history: calls of the helper's pre and post in this process

rankVars == <<direction, ranking, pushed, lastBest, output>>
confVars == <<criterion, profile, hooks, post, repetition, kernel>>
sigVars == <<blocked, pending, is_canceled>>
evalVars == <<files, lastEval, evaluated>>
loopVars == <<pc, runs, state, individual, count>>
genVars == <<config, options, temp_results, best_overall, evaluation_results,
             len, index, holes, children, child, history>>
histVars == <<sinceCheck, observed, best_ever>>
helpVars == <<helper>>

vars == <<rankVars, confVars, sigVars, evalVars, loopVars, genVars, histVars,
         helpVars>>

None == [none |-> TRUE]

(***************************************************************************)
(* Bounds of the model.                                                    *)
(***************************************************************************)
MaxFitness == 2
MaxPushes == 4
MaxCapacity == 3

Directions == {"Minimize", "Maximize"}

\* Union::First / Union::Second
First(v) == [union |-> "First", value |-> v]
Second(v) == [union |-> "Second", value |-> v]

(***************************************************************************)
(* Parameter model: Instance::new and the digest that names an Individual. *)
(* A Value is [tag, v]; the parameter map is the sequence of Values in the *)
(* key order of the BTreeMap.                                              *)
(***************************************************************************)
\* serde_json::to_vec(&parameters): the ordered (position, tag, value) triples.
Serialize(parameters) ==
    [i \in 1..Len(parameters) |-> <<i, parameters[i].tag, parameters[i].v>>]

\* Sha256::digest(...) rendered as hex and interned; SHA-256 is taken to be
\* collision free, so the digest is the serialization under a "sha256" mark.
Digest(parameters) == <<"sha256", Serialize(parameters)>>

\* Instance::new
NewIndividual(parameters) ==
    [id |-> Digest(parameters), parameters |-> parameters]

(***************************************************************************)
(* std BinaryHeap as Heap::push / Heap::pop use it: the array layout, with *)
(* sift_up and sift_down_to_bottom.  Positions are 0-based as in the code; *)
(* data[p + 1] is the element at position p.                               *)
(***************************************************************************)
\* Ord for ExecutionResult (total_cmp on the fitness); Heap::Min wraps the
\* elements in cmp::Reverse.
HeapLe(kind, a, b) ==
    IF kind = "Max" THEN a.fitness <= b.fitness ELSE b.fitness <= a.fitness

RECURSIVE SiftUp(_, _, _, _, _)
\* sift_up(start, pos) with the hole's element `elt` held out of the array
SiftUp(kind, data, start, pos, elt) ==
    IF pos > start
    THEN LET parent == (pos - 1) \div 2 IN
         IF HeapLe(kind, elt, data[parent + 1])
         THEN [data EXCEPT ![pos + 1] = elt]
         ELSE SiftUp(kind, [data EXCEPT ![pos + 1] = data[parent + 1]],
                     start, parent, elt)
    ELSE [data EXCEPT ![pos + 1] = elt]

RECURSIVE SiftDownToBottom(_, _, _, _)
\* sift_down_to_bottom(0): move the hole to the bottom along the greater
\* child, then sift the element up again.
SiftDownToBottom(kind, data, pos, elt) ==
    LET end == Len(data)
        kid == 2 * pos + 1
    IN  IF end >= 2 /\ kid <= end - 2
        THEN LET c == IF HeapLe(kind, data[kid + 1], data[kid + 2])
                      THEN kid + 1 ELSE kid
             IN  SiftDownToBottom(kind, [data EXCEPT ![pos + 1] = data[c + 1]],
                                  c, elt)
        ELSE IF kid = end - 1
             THEN SiftUp(kind, [data EXCEPT ![pos + 1] = data[kid + 1]],
                         0, kid, elt)
             ELSE SiftUp(kind, data, 0, pos, elt)

\* Heap::min / Heap::max
HeapNew(kind) == [kind |-> kind, data |-> <<>>]

\* Heap::push
HeapPush(heap, value) ==
    [heap EXCEPT !.data =
        SiftUp(heap.kind, Append(heap.data, value), 0, Len(heap.data), value)]

\* Heap::pop (the heap it leaves; the popped element is dropped by the caller)
HeapPop(heap) ==
    LET n == Len(heap.data) IN
    IF n = 0 THEN heap
    ELSE LET item == heap.data[n]
             rest == SubSeq(heap.data, 1, n - 1)
         IN  IF rest = <<>> THEN [heap EXCEPT !.data = rest]
             ELSE [heap EXCEPT !.data =
                      SiftDownToBottom(heap.kind, rest, 0, item)]

\* Heap::len
HeapLen(heap) == Len(heap.data)

\* Heap::iter / Heap::into_iter: the elements in the order of the array
HeapIter(heap) == heap.data

(***************************************************************************)
(* Ranking                                                                 *)
(***************************************************************************)
\* Ranking::new
RankingNew(dir, capacity) ==
    [heap |-> IF dir = "Minimize" THEN HeapNew("Max") ELSE HeapNew("Min"),
     capacity |-> capacity]

\* Ranking::push with the capacity test off by one (>= for >)
RankingPushOffByOne(r, ind, fitness) ==
    LET result == [individual |-> ind, fitness |-> fitness]
        h == HeapPush(r.heap, result)
    IN  IF HeapLen(h) >= r.capacity
        THEN [r EXCEPT !.heap = HeapPop(h)]
        ELSE [r EXCEPT !.heap = h]

\* Ranking::push
RankingPush(r, ind, fitness) ==
    LET result == [individual |-> ind, fitness |-> fitness]
        h == HeapPush(r.heap, result)
    IN  IF HeapLen(h) > r.capacity
        THEN [r EXCEPT !.heap = HeapPop(h)]
        ELSE [r EXCEPT !.heap = h]

RECURSIVE SeqMin(_, _, _)
\* Iterator::min over the elements: the first of the smallest
SeqMin(s, i, acc) ==
    IF i > Len(s) THEN acc
    ELSE SeqMin(s, i + 1, IF s[i].fitness < acc.fitness THEN s[i] ELSE acc)

\* Ranking::best
RankingBest(r) ==
    LET s == HeapIter(r.heap) IN
    IF s = <<>> THEN None ELSE SeqMin(s, 2, s[1])

Reverse(s) == [i \in 1..Len(s) |-> s[Len(s) + 1 - i]]

\* Ranking::into_json: the logs in into_iter order, reversed
RankingIntoJson(r) ==
    LET s == HeapIter(r.heap) IN
    Reverse([i \in 1..Len(s) |-> s[i].fitness])

(***************************************************************************)
(* f64 infinities and the Criterion's sentinel of an invalid evaluation.   *)
(***************************************************************************)
INFINITY == 1000
NEG_INFINITY == -INFINITY

IsPositiveInfinity(x) == x = INFINITY

\* f64::is_infinite / is_finite
IsInfinite(x) == x = INFINITY \/ x = NEG_INFINITY
IsFinite(x) == ~IsInfinite(x)

Criteria == {"Maximum", "Minimum", "Median"}

\* Criterion::invalid
CriterionInvalid(crit) == IF crit = "Maximum" THEN NEG_INFINITY ELSE INFINITY

(***************************************************************************)
(* The ranking on its own: any stream of pushes, any capacity, either      *)
(* direction, with best() and into_json called at any point.               *)
(***************************************************************************)
InitRanking ==
    /\ direction \in Directions
    /\ \E k \in 0..MaxCapacity : ranking = RankingNew(direction, k)
    /\ pushed = <<>>
    /\ lastBest = None
    /\ output = None
    /\ criterion \in Criteria
    /\ profile = <<>>
    /\ hooks = <<>>
    /\ pc = "ranking"
    /\ blocked = FALSE /\ pending = FALSE /\ is_canceled = FALSE
    /\ files = {} /\ lastEval = None /\ evaluated = <<>>
    /\ runs = 0 /\ state = None /\ individual = None /\ count = 0
    /\ kernel = <<>>
    /\ config = None /\ options = None /\ temp_results = <<>>
    /\ best_overall = 0 /\ evaluation_results = <<>> /\ len = 0 /\ index = 0
    /\ holes = <<>> /\ children = <<>> /\ child = None /\ history = <<>>
    /\ sinceCheck = 0 /\ observed = FALSE /\ best_ever = 0
    /\ post = <<>> /\ repetition = 1
    /\ helper = [pre |-> 0, post |-> 0]

\* ranking.push(individual, result), result being what evaluate returned:
\* a measured fitness or the criterion's sentinel
Push ==
    /\ output = None
    /\ Len(pushed) < MaxPushes
    /\ \E f \in (0..MaxFitness) \cup {CriterionInvalid(criterion)} :
          /\ ranking' = RankingPush(ranking, NewIndividual(<<>>), f)
          /\ pushed' = Append(pushed, f)
    /\ UNCHANGED <<direction, lastBest, output, confVars, helpVars, sigVars, evalVars, loopVars, genVars, histVars>>

Best ==
    /\ output = None
    /\ RankingBest(ranking) # None
    /\ lastBest' = [fitness |-> RankingBest(ranking).fitness, n |-> Len(pushed)]
    /\ lastBest' # lastBest
    /\ UNCHANGED <<direction, ranking, pushed, output, confVars, helpVars, sigVars, evalVars, loopVars, genVars, histVars>>

IntoJson ==
    /\ output = None
    /\ output' = First(RankingIntoJson(ranking))
    /\ UNCHANGED <<direction, ranking, pushed, lastBest, confVars, helpVars, sigVars, evalVars, loopVars, genVars, histVars>>

SpecRanking == InitRanking /\ [][Push \/ Best \/ IntoJson]_vars


(***************************************************************************)
(* Specifications, spaces and values.                                      *)
(***************************************************************************)
Integer(n) == [tag |-> "Integer", v |-> n]
\* Value::Switch(b), the boolean as 0 / 1
Switch(b) == [tag |-> "Switch", v |-> b]
Index(i) == [tag |-> "Index", v |-> i]

\* Specification::Integer over IntegerSpace::Sequence(lo, hi)
Sequence(lo, hi) == [kind |-> "Sequence", lo |-> lo, hi |-> hi, items |-> <<>>]
\* Specification::Integer over IntegerSpace::Candidates(vec)
Candidates(vec) == [kind |-> "Candidates", lo |-> 0, hi |-> 0, items |-> vec]
\* Specification::Switch
SwitchSpec == [kind |-> "Switch", lo |-> 0, hi |-> 0, items |-> <<>>]
\* Specification::Keyword(KeywordSpace(vec))
Keyword(vec) == [kind |-> "Keyword", lo |-> 0, hi |-> 0, items |-> vec]

\* Space::default (first): sequence lo, index 0, switch false
SpaceFirst(sp) ==
    CASE sp.kind = "Sequence" -> Integer(sp.lo)
      [] sp.kind = "Switch" -> Switch(0)
      [] OTHER -> Index(0)

\* Space::next
SpaceNext(sp, current) ==
    CASE sp.kind = "Sequence" ->
            IF current.v < sp.hi THEN Integer(current.v + 1) ELSE None
      [] sp.kind = "Switch" ->
            IF current.v = 0 THEN Switch(1) ELSE None
      [] OTHER ->
            IF current.v + 1 < Len(sp.items) THEN Index(current.v + 1) ELSE None

\* Space::len
SpaceLen(sp) ==
    CASE sp.kind = "Sequence" -> sp.hi - sp.lo + 1
      [] sp.kind = "Switch" -> 2
      [] OTHER -> Len(sp.items)

\* Space::random: the values a draw may return
SpaceRandom(sp) ==
    CASE sp.kind = "Sequence" -> {Integer(n) : n \in sp.lo..sp.hi}
      [] sp.kind = "Switch" -> {Switch(0), Switch(1)}
      [] OTHER -> {Index(i) : i \in 0..(Len(sp.items) - 1)}

RECURSIVE ProfileLenFrom(_, _)
ProfileLenFrom(prof, i) ==
    IF i > Len(prof) THEN 1 ELSE SpaceLen(prof[i]) * ProfileLenFrom(prof, i + 1)

\* Profile::len
ProfileLen(prof) == ProfileLenFrom(prof, 1)

\* Profile::compiler_arguments: one -D argument per parameter, none for a
\* switch that is off; <<position, value>> stands for "-DNAME=value".
CompilerArguments(prof, ind) ==
    LET arg(i) ==
            CASE prof[i].kind = "Sequence" -> <<<<i, ind.parameters[i].v>>>>
              [] prof[i].kind = "Switch" ->
                    IF ind.parameters[i].v = 1 THEN <<<<i, 1>>>> ELSE <<>>
              [] OTHER -> <<<<i, prof[i].items[ind.parameters[i].v + 1]>>>>
        F[i \in 0..Len(prof)] == IF i = 0 THEN <<>> ELSE F[i - 1] \o arg(i)
    IN  F[Len(prof)]

(***************************************************************************)
(* The exhaustive State: Profile::iter and Iterator::next.                 *)
(***************************************************************************)
\* Exhaustive for Profile: iter
ProfileIter(prof) ==
    [names |-> [i \in 1..Len(prof) |-> i],
     values |-> [i \in 1..Len(prof) |-> SpaceFirst(prof[i])],
     specifications |-> prof,
     done |-> FALSE]

\* next that advances the leftmost value that has a successor
StateNextLeftmost(st) ==
    IF st.done THEN [item |-> None, state |-> st]
    ELSE LET n == Len(st.values)
             ind == NewIndividual(st.values)
             can == {i \in 1..n :
                        SpaceNext(st.specifications[i], st.values[i]) # None}
         IN  IF can = {}
             THEN [item |-> ind, state |-> [st EXCEPT !.done = TRUE]]
             ELSE LET slot == CHOOSE i \in can : \A j \in can : i <= j
                  IN  [item |-> ind,
                       state |-> [st EXCEPT !.values =
                          [r \in 1..n |->
                             IF r < slot THEN st.values[r]
                             ELSE IF r = slot
                                  THEN SpaceNext(st.specifications[r], st.values[r])
                                  ELSE SpaceFirst(st.specifications[r])]]]

\* Iterator for State: next.  [item, state]: the Individual yielded (None at
\* the end) and the State left behind.
StateNext(st) ==
    IF st.done THEN [item |-> None, state |-> st]
    ELSE LET n == Len(st.values)
             ind == NewIndividual(st.values)
             can == {i \in 1..n :
                        SpaceNext(st.specifications[i], st.values[i]) # None}
         IN  IF can = {}
             THEN [item |-> ind, state |-> [st EXCEPT !.done = TRUE]]
             ELSE LET slot == CHOOSE i \in can : \A j \in can : j <= i
                  IN  [item |-> ind,
                       state |-> [st EXCEPT !.values =
                          [r \in 1..n |->
                             IF r < slot THEN st.values[r]
                             ELSE IF r = slot
                                  THEN SpaceNext(st.specifications[r], st.values[r])
                                  ELSE SpaceFirst(st.specifications[r])]]]

(***************************************************************************)
(* Signals: block / unblock of SIGQUIT and the handler run registers.      *)
(***************************************************************************)
\* utils::block: sigprocmask(SIG_BLOCK); [blocked, pending, is_canceled]
block(sig) == [sig EXCEPT !.blocked = TRUE]

\* utils::unblock: sigprocmask(SIG_UNBLOCK); a pending SIGQUIT is delivered
\* before the call returns, which runs the handler.
unblock(sig) ==
    [blocked |-> FALSE, pending |-> FALSE,
     is_canceled |-> sig.is_canceled \/ sig.pending]

Sig == [blocked |-> blocked, pending |-> pending, is_canceled |-> is_canceled]

SetSig(sig) ==
    /\ blocked' = sig.blocked
    /\ pending' = sig.pending
    /\ is_canceled' = sig.is_canceled

\* A SIGQUIT is raised: the registered handler sets the flag at once, unless
\* the signal is blocked, and then it stays pending.
Sigquit ==
    /\ pc \notin {"ranking", "exit", "panic"}
    /\ IF blocked
       THEN /\ ~pending
            /\ pending' = TRUE
            /\ UNCHANGED is_canceled
       ELSE /\ ~is_canceled
            /\ is_canceled' = TRUE
            /\ UNCHANGED pending
    /\ UNCHANGED <<blocked, rankVars, confVars, helpVars, evalVars, loopVars, genVars, histVars>>

(***************************************************************************)
(* Autotuner::evaluate                                                     *)
(***************************************************************************)
\* the path <tempdir>/individuals/<id>.so
SoPath(ind) == ind.id

PathExists(fs, path) == \E f \in fs : f.path = path

\* Hook::call on the symbol `name`: the user's hook "veto" calls
\* context_invalidate iff the last parameter of the individual is switched on
\* (or is at index or value 1); the user's hook "note" leaves the context alone.
HookCall(name, ind, result) ==
    IF /\ name = "veto"
       /\ ind.parameters # <<>>
       /\ ind.parameters[Len(ind.parameters)].v = 1
    THEN "Invalid"
    ELSE result

\* the hook calls in the wrong order, last name first
RECURSIVE HooksReversed(_, _, _, _)
HooksReversed(kind, names, ind, ctx) ==
    IF names = <<>> THEN ctx
    ELSE LET rest == HooksReversed(kind, Tail(names), ind, ctx) IN
         [result |-> HookCall(Head(names), ind, rest.result),
          calls |-> Append(rest.calls, <<kind, Head(names)>>)]

\* for name in &self.configuration.hooks.pre (or .post) { task.call(..) }:
\* every hook is called, in the configured order, on the same context
RECURSIVE Hooks(_, _, _, _)
Hooks(kind, names, ind, ctx) ==
    IF names = <<>> THEN ctx
    ELSE Hooks(kind, Tail(names), ind,
               [result |-> HookCall(Head(names), ind, ctx.result),
                calls |-> Append(ctx.calls, <<kind, Head(names)>>)])

\* the context result is Invalid once the pre-hooks have run
HookInvalidates(hks, ind) ==
    Hooks("pre", hks, ind, [result |-> "Unknown", calls |-> <<>>]).result = "Invalid"

NaN == 999

\* What one call of the runner does: it leaves the context result Invalid,
\* or it reports a fitness through runner_result.
Outcomes ==
    {[kind |-> "runner_invalid", fitness |-> 0]}
    \cup {[kind |-> "valid", fitness |-> f] : f \in 0..MaxFitness}

\* ... or it reports NaN, or the kernel raises SIGSEGV, or it returns
\* without a call of runner_result ("silent").
RunnerOutcomes ==
    Outcomes \cup {[kind |-> "valid", fitness |-> NaN],
                   [kind |-> "segv", fitness |-> 0],
                   [kind |-> "silent", fitness |-> 0]}

\* context::Result::unwrap(&criterion) of a context result that is Valid or
\* Invalid
Unwrap(crit, oc) ==
    IF oc.kind = "runner_invalid" THEN CriterionInvalid(crit) ELSE oc.fitness

RECURSIVE InsertAsc(_, _)
InsertAsc(s, x) ==
    IF s = <<>> THEN <<x>>
    ELSE IF x <= Head(s) THEN <<x>> \o s
         ELSE <<Head(s)>> \o InsertAsc(Tail(s), x)

\* sort_by(f64::total_cmp)
RECURSIVE SortAsc(_)
SortAsc(s) == IF s = <<>> THEN <<>> ELSE InsertAsc(SortAsc(Tail(s)), Head(s))

RECURSIVE Fold(_, _, _)
Fold(crit, values, acc) ==
    IF values = <<>> THEN acc
    ELSE Fold(crit, Tail(values),
              IF crit = "Maximum"
              THEN (IF Head(values) > acc THEN Head(values) ELSE acc)
              ELSE (IF Head(values) < acc THEN Head(values) ELSE acc))

\* Criterion::representative
RepresentativeLowerMiddle(crit, values) ==
    CASE crit = "Maximum" -> Fold(crit, values, NEG_INFINITY)
      [] crit = "Minimum" -> Fold(crit, values, INFINITY)
      [] OTHER -> SortAsc(values)[(Len(values) + 1) \div 2]

Representative(crit, values) ==
    CASE crit = "Maximum" -> Fold(crit, values, NEG_INFINITY)
      [] crit = "Minimum" -> Fold(crit, values, INFINITY)
      [] OTHER -> SortAsc(values)[(Len(values) \div 2) + 1]

RECURSIVE RunnerLoopKeepsNaN(_, _, _)
RunnerLoopKeepsNaN(crit, ocs, acc) ==
    IF ocs = <<>> THEN acc
    ELSE LET oc == Head(ocs)
             called == Append(acc.calls, <<"runner", "call">>)
             result == IF oc.kind = "silent" THEN acc.result ELSE oc
         IN  IF oc.kind = "segv"
             THEN [acc EXCEPT !.calls = called, !.end = "exit"]
             ELSE IF result.kind = "unknown"
             THEN [acc EXCEPT !.calls = called, !.end = "panic"]
             ELSE RunnerLoopKeepsNaN(crit, Tail(ocs),
                     [acc EXCEPT !.calls = called, !.result = result,
                                 !.fitnesses = Append(@, Unwrap(crit, result))])

\* for _ in 0..repetition { runner.call(..); fitnesses.push(..) }, ocs[i]
\* being what the i-th call does: the calls made, the context result (the
\* last one set: a call that reports nothing leaves it as it is), the
\* fitnesses collected and how the loop ends ("done"; "exit" when the
\* SIGSEGV handler exits the process; "panic" on NaN and on a result that is
\* still Unknown)
RECURSIVE RunnerLoop(_, _, _)
RunnerLoop(crit, ocs, acc) ==
    IF ocs = <<>> THEN acc
    ELSE LET oc == Head(ocs)
             called == Append(acc.calls, <<"runner", "call">>)
             result == IF oc.kind = "silent" THEN acc.result ELSE oc
         IN  IF oc.kind = "segv"
             THEN [acc EXCEPT !.calls = called, !.end = "exit"]
             ELSE IF result.kind = "unknown" \/ Unwrap(crit, result) = NaN
             THEN [acc EXCEPT !.calls = called, !.end = "panic"]
             ELSE RunnerLoop(crit, Tail(ocs),
                     [acc EXCEPT !.calls = called, !.result = result,
                                 !.fitnesses = Append(@, Unwrap(crit, result))])

\* the compiler arguments of the shared object evaluate loads for the
\* individual: the one at its path, compiled now if the path does not exist
Loaded(prof, fs, ind) ==
    IF PathExists(fs, SoPath(ind))
    THEN (CHOOSE f \in fs : f.path = SoPath(ind)).arguments
    ELSE CompilerArguments(prof, ind)

\* evaluate from the path on: compile unless the path exists, load, run the
\* runner ocs[1], ocs[2], .., take the representative, call the post-hooks
Pipeline(prof, crit, pst, fs, ind, ocs, ctx) ==
    LET path == SoPath(ind)
        exists == PathExists(fs, path)
        fs2 == IF exists THEN fs
               ELSE fs \cup {[path |-> path,
                              arguments |-> CompilerArguments(prof, ind)]}
        lib == [arguments |-> Loaded(prof, fs, ind)]
        opened == ctx.calls \o (IF exists THEN <<>> ELSE <<<<"compile", "so">>>>)
                            \o <<<<"load", "so">>>>
        ran == RunnerLoop(crit, ocs,
                          [calls |-> opened, fitnesses |-> <<>>, end |-> "done",
                           result |-> [kind |-> "unknown", fitness |-> 0]])
        after == IF ran.end = "done"
                 THEN Hooks("post", pst, ind,
                            [result |-> "Valid", calls |-> ran.calls])
                 ELSE [result |-> "Unknown", calls |-> ran.calls]
    IN  [fitness |-> IF ran.end # "done" THEN NaN
                     ELSE IF after.result = "Invalid" THEN CriterionInvalid(crit)
                     ELSE Representative(crit, ran.fitnesses),
         files |-> fs2,
         end |-> ran.end,
         calls |-> after.calls,
         fitnesses |-> ran.fitnesses,
         log |-> [individual |-> ind, compiled |-> ~exists, loaded |-> TRUE,
                  ran |-> lib.arguments, before |-> fs]]

\* evaluate that goes on after the pre-hooks whatever the context result
EvaluateOn(prof, crit, hks, pst, fs, ind, ocs) ==
    Pipeline(prof, crit, pst, fs, ind, ocs,
             Hooks("pre", hks, ind, [result |-> "Unknown", calls |-> <<>>]))

\* Autotuner::evaluate(individual, repetition), ocs[i] being what the i-th
\* runner call does: [fitness, files, end, calls, fitnesses, log].  The shared
\* object is compiled under the path of the individual's id unless that path
\* exists; the object at the path is then loaded and run.
Evaluate(prof, crit, hks, pst, fs, ind, ocs) ==
    LET ctx == Hooks("pre", hks, ind, [result |-> "Unknown", calls |-> <<>>]) IN
    IF ctx.result = "Invalid"
    THEN [fitness |-> CriterionInvalid(crit), files |-> fs,
          end |-> "done", calls |-> ctx.calls, fitnesses |-> <<>>,
          log |-> [individual |-> ind, compiled |-> FALSE, loaded |-> FALSE,
                   ran |-> <<>>, before |-> fs]]
    ELSE Pipeline(prof, crit, pst, fs, ind, ocs, ctx)

(***************************************************************************)
(* The helper library: Autotuner::new calls its pre function, dropping the *)
(* Autotuner calls its post function.                                      *)
(***************************************************************************)
\* Autotuner::new, in a fresh process: initializer.call(&mut workspace)
New == [pre |-> 1, post |-> 0]

\* impl Drop for Autotuner: finalizer.call(&mut self.workspace)
Drop(h) == [h EXCEPT !.post = @ + 1]

(***************************************************************************)
(* Autotuner::run, exhaustive strategy.                                    *)
(***************************************************************************)
MaxHi == 2
MaxRuns == 2

ExhaustiveProfiles ==
    {<<Sequence(0, MaxHi), SwitchSpec>>,
     <<Candidates(<<4, 8>>), Keyword(<<"row", "col">>), SwitchSpec>>}

\* run that starts from Profile::iter whatever the checkpoint holds
ExhaustiveLoadFresh(checkpoint, prof) == ProfileIter(prof)

\* run: the state the loop starts from, given the Checkpoint read from the
\* --continue file, if any
ExhaustiveLoad(checkpoint, prof) ==
    IF checkpoint # None /\ checkpoint.tag = "Exhaustive"
    THEN checkpoint.state
    ELSE ProfileIter(prof)

\* From<exhaustive::state::State> for Checkpoint, serialized to the
\* checkpoint file: names, values, specifications and done
ExhaustiveCheckpoint(st) ==
    [tag |-> "Exhaustive",
     state |-> [names |-> st.names, values |-> st.values,
                specifications |-> st.specifications, done |-> st.done]]

\* The process starts: Autotuner::new makes a fresh temp dir, run registers
\* the handler and builds the ranking and the state.
StartExhaustive(checkpoint) ==
    /\ ranking' = RankingNew(direction, ranking.capacity)
    /\ state' = ExhaustiveLoad(checkpoint, profile)
    /\ SetSig([blocked |-> FALSE, pending |-> FALSE, is_canceled |-> FALSE])
    /\ files' = {}
    /\ count' = 1
    /\ individual' = None
    /\ output' = None
    /\ runs' = runs + 1
    /\ sinceCheck' = 0
    /\ observed' = FALSE
    /\ UNCHANGED best_ever
    /\ helper' = New
    /\ pc' = "x_next"

InitExhaustive ==
    /\ direction \in Directions
    /\ criterion \in {"Minimum", "Maximum"}
    /\ profile \in ExhaustiveProfiles
    /\ hooks \in {<<>>, <<"veto">>}
    /\ ranking = RankingNew(direction, 1)
    /\ pushed = <<>> /\ lastBest = None /\ output = None
    /\ pc = "start"
    /\ blocked = FALSE /\ pending = FALSE /\ is_canceled = FALSE
    /\ files = {} /\ lastEval = None /\ evaluated = <<>>
    /\ runs = 0 /\ state = None /\ individual = None /\ count = 0
    /\ kernel = <<>>
    /\ config = None /\ options = None /\ temp_results = <<>>
    /\ best_overall = 0 /\ evaluation_results = <<>> /\ len = 0 /\ index = 0
    /\ holes = <<>> /\ children = <<>> /\ child = None /\ history = <<>>
    /\ sinceCheck = 0 /\ observed = FALSE /\ best_ever = 0
    /\ post = <<>> /\ repetition = 1
    /\ helper = [pre |-> 0, post |-> 0]

XStart ==
    /\ pc = "start"
    /\ StartExhaustive(None)
    /\ UNCHANGED <<direction, pushed, lastBest, confVars, lastEval, evaluated, genVars>>

\* for individual in &mut state
XNext ==
    /\ pc = "x_next"
    /\ LET nx == StateNext(state) IN
          /\ state' = nx.state
          /\ individual' = nx.item
          /\ pc' = IF nx.item = None THEN "x_end" ELSE "x_block"
    /\ UNCHANGED <<rankVars, confVars, helpVars, sigVars, evalVars, runs, count, genVars, histVars>>

\* guard!(SIGQUIT, ...): block
XBlock ==
    /\ pc = "x_block"
    /\ SetSig(block(Sig))
    /\ pc' = "x_body"
    /\ UNCHANGED <<rankVars, confVars, helpVars, evalVars, runs, state, individual, count,
                   genVars, histVars>>

\* the guarded body: evaluate and ranking.push
XBody ==
    /\ pc = "x_body"
    /\ \E oc \in Outcomes :
          LET ev == Evaluate(profile, criterion, hooks, post, files, individual,
                             <<oc>>) IN
          /\ files' = ev.files
          /\ lastEval' = ev.log
          /\ evaluated' = Append(evaluated, individual.parameters)
          /\ ranking' = RankingPush(ranking, individual, ev.fitness)
    /\ sinceCheck' = IF sinceCheck < 2 THEN sinceCheck + 1 ELSE 2
    /\ UNCHANGED best_ever
    /\ pc' = "x_unblock"
    /\ UNCHANGED <<direction, pushed, lastBest, output, confVars, helpVars, sigVars,
                   runs, state, individual, count, genVars, observed>>

\* guard!(SIGQUIT, ...): unblock
XUnblock ==
    /\ pc = "x_unblock"
    /\ SetSig(unblock(Sig))
    /\ pc' = "x_check"
    /\ UNCHANGED <<rankVars, confVars, helpVars, evalVars, runs, state, individual, count,
                   genVars, histVars>>

\* if *is_canceled { break; } count += 1;
XCheck ==
    /\ pc = "x_check"
    /\ IF is_canceled
       THEN pc' = "x_end" /\ UNCHANGED count
       ELSE pc' = "x_next" /\ count' = count + 1
    /\ sinceCheck' = 0
    /\ observed' = is_canceled
    /\ UNCHANGED best_ever
    /\ UNCHANGED <<rankVars, confVars, helpVars, sigVars, evalVars, runs, state, individual,
                   genVars>>

\* if *is_canceled { second!(state.into()) } else { first!(ranking.into_json()) }
XEnd ==
    /\ pc = "x_end"
    /\ output' = IF is_canceled
                 THEN Second(ExhaustiveCheckpoint(state))
                 ELSE First(RankingIntoJson(ranking))
    /\ helper' = Drop(helper)
    /\ pc' = "exit"
    /\ UNCHANGED <<direction, ranking, pushed, lastBest, confVars, sigVars,
                   evalVars, runs, state, individual, count, genVars, histVars>>

\* The program is started again with --continue on the checkpoint written.
XResume ==
    /\ pc = "exit"
    /\ output # None /\ output.union = "Second"
    /\ runs < MaxRuns
    /\ StartExhaustive(output.value)
    /\ UNCHANGED <<direction, pushed, lastBest, confVars, lastEval, evaluated, genVars>>

SpecExhaustive ==
    /\ InitExhaustive
    /\ [][\/ XStart \/ XNext \/ XBlock \/ XBody \/ XUnblock \/ XCheck \/ XEnd
          \/ XResume \/ Sigquit]_vars

(***************************************************************************)
(* Profile::iter on its own: the State of any profile of up to             *)
(* MaxParameters parameters, driven to its end.                            *)
(***************************************************************************)
MaxParameters == 2

Spaces ==
    {Sequence(0, MaxHi), Sequence(1, 1), SwitchSpec,
     Candidates(<<>>), Candidates(<<4, 8>>),
     Keyword(<<>>), Keyword(<<"row">>), Keyword(<<"row", "col">>)}

Profiles == UNION {[1..n -> Spaces] : n \in 0..MaxParameters}

InitIter ==
    /\ profile \in Profiles
    /\ state = ProfileIter(profile)
    /\ evaluated = <<>>
    /\ pc = "iter"
    /\ direction = "Minimize" /\ criterion = "Minimum"
    /\ hooks = <<>> /\ post = <<>> /\ repetition = 1 /\ kernel = <<>>
    /\ ranking = RankingNew(direction, 1)
    /\ pushed = <<>> /\ lastBest = None /\ output = None
    /\ blocked = FALSE /\ pending = FALSE /\ is_canceled = FALSE
    /\ files = {} /\ lastEval = None
    /\ runs = 0 /\ individual = None /\ count = 0
    /\ config = None /\ options = None /\ temp_results = <<>>
    /\ best_overall = 0 /\ evaluation_results = <<>> /\ len = 0 /\ index = 0
    /\ holes = <<>> /\ children = <<>> /\ child = None /\ history = <<>>
    /\ sinceCheck = 0 /\ observed = FALSE /\ best_ever = 0
    /\ helper = [pre |-> 0, post |-> 0]

\* state.next(): Some(individual), collected, or None, which ends the loop
INext ==
    /\ pc = "iter"
    /\ LET nx == StateNext(state) IN
          /\ state' = nx.state
          /\ individual' = nx.item
          /\ IF nx.item = None
             THEN pc' = "done" /\ UNCHANGED evaluated
             ELSE pc' = "iter" /\ evaluated' = Append(evaluated, nx.item.parameters)
    /\ UNCHANGED <<rankVars, confVars, helpVars, sigVars, files, lastEval, runs,
                   count, genVars, histVars>>

SpecIter == InitIter /\ [][INext]_vars

(***************************************************************************)
(* One process from Autotuner::new to its end, seen from the native code:  *)
(* the helper, the hooks and the runner.  The kernel here is what the      *)
(* runner does at its first, second, .. call of an evaluation.  The        *)
(* strategy evaluates any individual of the profile any number of times;   *)
(* the process ends when                                                   *)
(* run returns and main drops the Autotuner, when an evaluation panics, or *)
(* when the SIGSEGV handler installed around the runner exits.             *)
(***************************************************************************)
MaxRepetition == 2

InitEvaluate ==
    /\ direction = "Minimize"
    /\ criterion \in Criteria
    /\ profile = <<SwitchSpec>>
    /\ hooks \in {<<>>, <<"note", "veto">>, <<"veto", "note">>}
    /\ post \in {<<>>, <<"note", "veto">>}
    /\ repetition \in 1..MaxRepetition
    /\ ranking = RankingNew(direction, 1)
    /\ pushed = <<>> /\ lastBest = None /\ output = None
    /\ pc = "start"
    /\ blocked = FALSE /\ pending = FALSE /\ is_canceled = FALSE
    /\ files = {} /\ lastEval = None /\ evaluated = <<>>
    /\ runs = 0 /\ state = None /\ individual = None /\ count = 0
    /\ kernel \in [1..repetition -> RunnerOutcomes]
    /\ config = None /\ options = None /\ temp_results = <<>>
    /\ best_overall = 0 /\ evaluation_results = <<>> /\ len = 0 /\ index = 0
    /\ holes = <<>> /\ children = <<>> /\ child = None /\ history = <<>>
    /\ sinceCheck = 0 /\ observed = FALSE /\ best_ever = 0
    /\ helper = [pre |-> 0, post |-> 0]

\* Autotuner::new
ENew ==
    /\ pc = "start"
    /\ helper' = New
    /\ files' = {}
    /\ pc' = "run"
    /\ UNCHANGED <<rankVars, confVars, sigVars, lastEval, evaluated, runs, state,
                   individual, count, genVars, histVars>>

\* self.evaluate(&individual, repetition) from a strategy loop.  A panic
\* unwinds through main and drops the Autotuner; process::exit does not.
EEvaluate ==
    /\ pc = "run"
    /\ \E b \in 0..1 :
          LET ev == Evaluate(profile, criterion, hooks, post, files,
                             NewIndividual(<<Switch(b)>>), kernel)
          IN  /\ files' = ev.files
              /\ lastEval' = [fitness |-> ev.fitness, end |-> ev.end,
                              calls |-> ev.calls, log |-> ev.log,
                              fitnesses |-> ev.fitnesses]
              /\ pc' = IF ev.end = "done" THEN "run" ELSE ev.end
              /\ helper' = IF ev.end = "panic" THEN Drop(helper) ELSE helper
    /\ UNCHANGED <<rankVars, confVars, sigVars, evaluated, runs, state,
                   individual, count, genVars, histVars>>

\* run returns the results or, cancelled, the checkpoint; main writes the
\* file and returns, which drops the Autotuner
EReturn ==
    /\ pc = "run"
    /\ \E canceled \in BOOLEAN :
          output' = IF canceled THEN Second(None) ELSE First(<<>>)
    /\ helper' = Drop(helper)
    /\ pc' = "exit"
    /\ UNCHANGED <<direction, ranking, pushed, lastBest, confVars, sigVars,
                   evalVars, runs, state, individual, count, genVars, histVars>>

SpecEvaluate == InitEvaluate /\ [][ENew \/ EEvaluate \/ EReturn]_vars

(***************************************************************************)
(* Genetic strategy: options, sampling, crossover, mutation, selection.    *)
(***************************************************************************)
Some(v) == [some |-> v]

\* an f64 option value or factor that is a ratio of two integers
Ratio(num, den) == [num |-> num, den |-> den]

\* options::Usize and options::Real: a value and an optional Scaler
Usize(value, scaler) == [value |-> value, scaler |-> scaler]
Real(value, scaler) == [value |-> value, scaler |-> scaler]

\* Scaler::Exponential(factor)
Exponential(factor) == Some(factor)

\* Rust's integer division and `as` casts truncate toward zero
TruncDiv(x, d) == IF x >= 0 THEN x \div d ELSE (x + (d - 1)) \div d

\* Step for Usize: value = ((value as f64) * factor) as usize
StepUsize(o) ==
    IF o.scaler = None THEN o
    ELSE [o EXCEPT !.value = TruncDiv(o.value * o.scaler.some.num, o.scaler.some.den)]

\* Step for Real: value *= factor
StepReal(o) ==
    IF o.scaler = None THEN o
    ELSE [o EXCEPT !.value = Ratio(o.value.num * o.scaler.some.num,
                                   o.value.den * o.scaler.some.den)]

\* Step for Mutation
StepMutation(m) ==
    [probability |-> StepReal(m.probability), variation |-> StepReal(m.variation)]

\* Step for Options
OptionsStep(o) ==
    [o EXCEPT !.generate = StepUsize(o.generate),
              !.delete = StepUsize(o.delete),
              !.infuse = StepUsize(o.infuse),
              !.mutate = StepMutation(o.mutate)]

RECURSIVE SeqProduct(_)
\* the sequences that take their i-th element from the i-th set
SeqProduct(sets) ==
    IF sets = <<>> THEN {<<>>}
    ELSE {<<h>> \o t : h \in Head(sets), t \in SeqProduct(Tail(sets))}

\* State::sample: every parameter drawn by Space::random
Sample(prof) ==
    {NewIndividual(p) : p \in SeqProduct([i \in 1..Len(prof) |-> SpaceRandom(prof[i])])}

\* State::new
GeneticStateNew(prof, initial) ==
    {[generation |-> 1, count |-> 0, population |-> pop] :
        pop \in SeqProduct([i \in 1..initial |-> Sample(prof)])}

\* i32::MAX, i32::MIN
I32Max == 2147483647
I32Min == -I32Max - 1

\* a + b in i32 without overflow checks: the sum modulo 2^32
WrappingAdd(a, b) ==
    IF b > 0 /\ a > I32Max - b THEN ((a - I32Max) - 1) + ((b - I32Max) - 1)
    ELSE IF b < 0 /\ a < I32Min - b THEN (a - I32Min) + (b - I32Min)
    ELSE a + b

\* GeneticSpace::crossover, the values it can return; (a + b) / 2 is the
\* i32 sum halved, truncated towards zero
SpaceCrossover(sp, a, b) ==
    IF sp.kind = "Sequence"
    THEN LET sum == WrappingAdd(a.v, b.v)
         IN  {Integer(IF sum >= 0 THEN sum \div 2 ELSE (sum + 1) \div 2)}
    ELSE IF a.v = b.v THEN {a} ELSE SpaceRandom(sp)

\* crossover panics: *a + *b does not fit an i32 and the build checks
\* overflows
CrossoverPanics(prof, a, b) ==
    \E i \in 1..Len(prof) :
        LET x == a.parameters[i].v
            y == b.parameters[i].v
        IN  /\ prof[i].kind = "Sequence"
            /\ \/ y > 0 /\ x > I32Max - y
               \/ y < 0 /\ x < I32Min - y

\* crossover: a new Individual (with the id of its parameters) per outcome
Crossover(prof, a, b) ==
    {NewIndividual(p) :
        p \in SeqProduct([i \in 1..Len(prof) |->
                 SpaceCrossover(prof[i], a.parameters[i], b.parameters[i])])}

\* rand::random_bool(p): the outcomes that can be drawn
RandomBool(p) ==
    IF p.num <= 0 THEN {FALSE} ELSE IF p.num >= p.den THEN {TRUE} ELSE {TRUE, FALSE}

\* rand::random_bool panics for p outside [0, 1]
RandomBoolPanics(p) == p.num < 0 \/ p.num > p.den

\* the Sequence arm of GeneticSpace::mutate in i32: the values n can have
\* afterwards where overflows wrap, and whether a step of it panics
\* (always: random_range over an empty range; where overflows are checked:
\* end - start, -variation or *n += offset leaving the i32 range).  A
\* variation too wide to enumerate is drawn at its ends and around zero.
SequenceMutate(sp, mutation, n) ==
    LET num == mutation.variation.value.num
        den == mutation.variation.value.den
        wide == sp.lo < 0 /\ sp.hi > I32Max + sp.lo
        range == IF wide THEN (sp.hi + I32Min) + (I32Min - sp.lo)
                 ELSE sp.hi - sp.lo
        q == TruncDiv(range, den)
        scaled == IF q > I32Max \div num THEN I32Max
                  ELSE IF q < I32Min \div num THEN I32Min
                  ELSE q * num + TruncDiv((range - q * den) * num, den)
        variation == IF scaled = 0 THEN 1 ELSE scaled
        low == IF variation = I32Min THEN I32Min ELSE 0 - variation
        offsets == IF low > variation THEN {}
                   ELSE IF variation <= MaxHi /\ low >= 0 - MaxHi
                        THEN low..variation
                        ELSE {d \in {low, -1, 0, 1, variation} :
                                 low <= d /\ d <= variation}
        clamp(m) == IF m < sp.lo THEN sp.lo ELSE IF m > sp.hi THEN sp.hi ELSE m
    IN  [values |-> {clamp(WrappingAdd(n, d)) : d \in offsets},
         panics |-> \/ wide
                    \/ variation = I32Min
                    \/ low > variation
                    \/ \E d \in offsets : \/ d > 0 /\ n > I32Max - d
                                          \/ d < 0 /\ n < I32Min - d]

\* GeneticSpace::mutate, the values the parameter can have afterwards
SpaceMutate(sp, mutation, value) ==
    LET drawn == RandomBool(mutation.probability.value)
        changed ==
            CASE sp.kind = "Sequence" ->
                    {Integer(m) : m \in SequenceMutate(sp, mutation, value.v).values}
              [] sp.kind = "Switch" -> {Switch(1 - value.v)}
              [] OTHER -> SpaceRandom(sp)
    IN  (IF TRUE \in drawn THEN changed ELSE {})
        \cup (IF FALSE \in drawn THEN {value} ELSE {})

\* mutate panics: random_bool or the Sequence arm of a parameter does
MutatePanics(prof, mutation, ind) ==
    \/ RandomBoolPanics(mutation.probability.value)
    \/ \E i \in 1..Len(prof) :
          /\ TRUE \in RandomBool(mutation.probability.value)
          /\ prof[i].kind = "Sequence"
          /\ SequenceMutate(prof[i], mutation, ind.parameters[i].v).panics

\* mutate: the parameters are changed in place, the id field is not touched
Mutate(prof, mutation, ind) ==
    {[ind EXCEPT !.parameters = p] :
        p \in SeqProduct([i \in 1..Len(prof) |->
                 SpaceMutate(prof[i], mutation, ind.parameters[i])])}

\* Direction::worst
DirectionWorst(dir) == IF dir = "Minimize" THEN INFINITY ELSE NEG_INFINITY

\* f64::total_cmp on the modelled values
TotalCmp(a, b) == IF a < b THEN "Less" ELSE IF a = b THEN "Equal" ELSE "Greater"

DirectionCompareAscending(dir, a, b) == TotalCmp(a, b)

\* Direction::compare
DirectionCompare(dir, a, b) ==
    IF dir = "Minimize" THEN TotalCmp(b, a) ELSE TotalCmp(a, b)

RECURSIVE FoldMinMax(_, _, _, _)
FoldMinMax(s, i, min, max) ==
    IF i > Len(s) THEN <<min, max>>
    ELSE FoldMinMax(s, i + 1, IF s[i] < min THEN s[i] ELSE min,
                              IF s[i] > max THEN s[i] ELSE max)

\* Direction::boundaries: (best, worst) of the values
Boundaries(dir, s) ==
    LET mm == FoldMinMax(s, 1, INFINITY, NEG_INFINITY)
    IN  IF dir = "Minimize" THEN [best |-> mm[1], worst |-> mm[2]]
        ELSE [best |-> mm[2], worst |-> mm[1]]

RECURSIVE SortInsert(_, _, _)
\* stable insertion: x goes before the first element it compares Less to
SortInsert(dir, sorted, x) ==
    IF sorted = <<>> THEN <<x>>
    ELSE IF DirectionCompare(dir, x[1], Head(sorted)[1]) = "Less"
         THEN <<x>> \o sorted
         ELSE <<Head(sorted)>> \o SortInsert(dir, Tail(sorted), x)

RECURSIVE SortFrom(_, _, _, _)
SortFrom(dir, results, i, acc) ==
    IF i > Len(results) THEN acc
    ELSE SortFrom(dir, results, i + 1, SortInsert(dir, acc, results[i]))

\* Sort<(f64, usize)> for Direction: results.sort_by(compare), a stable sort
DirectionSort(dir, results) == SortFrom(dir, results, 1, <<>>)

\* the permutations SliceRandom::shuffle can produce
Shuffles(s) ==
    {[i \in 1..Len(s) |-> s[p[i]]] :
        p \in {q \in [1..Len(s) -> 1..Len(s)] :
                  \A i, j \in 1..Len(s) : q[i] = q[j] => i = j}}

RECURSIVE SumFitness(_, _)
SumFitness(roulette, i) ==
    IF i > Len(roulette) THEN 0 ELSE roulette[i][1] + SumFitness(roulette, i + 1)

\* the four assertions of stochastic_universal_sampling
SusAsserts(roulette, n) ==
    /\ roulette # <<>>
    /\ n # 0
    /\ \A i \in 1..Len(roulette) : roulette[i][1] >= 0
    /\ \/ \E i \in 1..Len(roulette) : roulette[i][1] = INFINITY
       \/ SumFitness(roulette, 1) > 0

RECURSIVE SusAdvance(_, _, _, _, _)
\* while current_index < roulette.len() && current_sum < pointer; sums and
\* pointers are kept multiplied by 2n, which makes them integers
SusAdvance(roulette, n, pointer, current_sum, current_index) ==
    IF current_index < Len(roulette) /\ 2 * n * current_sum < pointer
    THEN SusAdvance(roulette, n, pointer,
                    current_sum + roulette[current_index + 1][1], current_index + 1)
    ELSE <<current_sum, current_index>>

RECURSIVE SusFrom(_, _, _, _, _, _, _)
SusFrom(roulette, n, total, start, i, at, selected) ==
    IF i = n THEN selected
    ELSE LET pointer == start + 2 * i * total
             to == SusAdvance(roulette, n, pointer, at[1], at[2])
             pick == IF to[2] = 0 THEN roulette[1][2] ELSE roulette[to[2]][2]
         IN  SusFrom(roulette, n, total, start, i + 1, to, Append(selected, pick))

\* stochastic_universal_sampling over finite weights: the selections for
\* every start in [0, distance).  With start = s / 2n the comparisons of the
\* code change their outcome at even s only, so s in 0..2*total-1 covers all.
SusFinite(roulette, n) ==
    LET total == SumFitness(roulette, 1) IN
    {SusFrom(roulette, n, total, s, 0, <<0, 0>>, <<>>) : s \in 0..(2 * total - 1)}

\* ... with an infinite weight the distance is infinite: pointer 0 is NaN
\* (0 * inf) and selects roulette[0]; the later ones stop behind the first
\* infinite weight, or are NaN as well when start is.
SusInfinite(roulette, n) ==
    LET k == CHOOSE i \in 1..Len(roulette) :
                 /\ roulette[i][1] = INFINITY
                 /\ \A j \in 1..(i - 1) : roulette[j][1] # INFINITY
    IN  {[i \in 1..n |-> IF i = 1 THEN roulette[1][2] ELSE roulette[k][2]],
         [i \in 1..n |-> roulette[1][2]]}

\* stochastic_universal_sampling(roulette, n): the selections it can return
StochasticUniversalSampling(roulette, n) ==
    IF \E i \in 1..Len(roulette) : roulette[i][1] = INFINITY
    THEN SusInfinite(roulette, n)
    ELSE SusFinite(roulette, n)

\* Vec::remove
Remove(vec, i) == SubSeq(vec, 1, i) \o SubSeq(vec, i + 2, Len(vec))

RECURSIVE RemoveAll(_, _, _)
\* for index in deleted { population.remove(index) }; None when an index is
\* out of bounds (Vec::remove panics)
RemoveAll(vec, deleted, i) ==
    IF i > Len(deleted) THEN Some(vec)
    ELSE IF deleted[i] >= Len(vec) THEN None
    ELSE RemoveAll(Remove(vec, deleted[i]), deleted, i + 1)

RECURSIVE ReplaceAll(_, _, _, _)
\* for (index, child) in children: population[holes[index]] = child
ReplaceAll(vec, targets, kids, i) ==
    IF i > Len(kids) THEN vec
    ELSE ReplaceAll([vec EXCEPT ![targets[i] + 1] = kids[i]], targets, kids, i + 1)

\* FxHashMap::insert
Insert(map, key, value) ==
    [k \in DOMAIN map \cup {key} |-> IF k = key THEN value ELSE map[k]]

(***************************************************************************)
(* Autotuner::run, genetic strategy.                                       *)
(***************************************************************************)
MaxGenerations == 2

GeneticProfiles == {<<Sequence(0, MaxHi)>>}

\* the [strategy.genetic] tables the runs are configured with
GeneticOptions ==
    {[initial |-> 2, remain |-> 0,
      generate |-> Usize(1, Exponential(Ratio(2, 1))),
      delete |-> Usize(1, None), infuse |-> Usize(0, None),
      terminate |-> [limit |-> Some(MaxGenerations), endure |-> None],
      mutate |-> [probability |-> Real(Ratio(1, 2), None),
                  variation |-> Real(Ratio(1, 2), None)]],
     [initial |-> 2, remain |-> 1,
      generate |-> Usize(2, None),
      delete |-> Usize(1, None), infuse |-> Usize(1, None),
      terminate |-> [limit |-> Some(MaxGenerations), endure |-> Some(1)],
      mutate |-> [probability |-> Real(Ratio(1, 2), None),
                  variation |-> Real(Ratio(1, 2), None)]],
     [initial |-> 3, remain |-> 1,
      generate |-> Usize(0, None),
      delete |-> Usize(2, None), infuse |-> Usize(0, None),
      terminate |-> [limit |-> Some(MaxGenerations), endure |-> None],
      mutate |-> [probability |-> Real(Ratio(1, 2), None),
                  variation |-> Real(Ratio(1, 2), None)]]}

\* the kernels tuned: the cost measured for a shared object is a function
\* of the value its first parameter was compiled with; the last kernel
\* reports NaN for one value
Kernels ==
    {[v \in 0..MaxHi |-> v + 1], [v \in 0..MaxHi |-> MaxHi + 1 - v],
     [v \in 0..MaxHi |-> IF v = MaxHi THEN NaN ELSE v + 1]}

\* what the runner measures when the individual is evaluated
Measured(ind) ==
    [kind |-> "valid", fitness |-> kernel[Loaded(profile, files, ind)[1][2]]]

\* From<genetic::state::State> for Checkpoint, serialized to the checkpoint
\* file: generation, count and the individuals, each as its parameters
GeneticCheckpoint(st) ==
    [tag |-> "Genetic",
     state |-> [generation |-> st.generation, count |-> st.count,
                individuals |-> [i \in 1..Len(st.population) |->
                                    st.population[i].parameters]]]

\* Deserialize for State: every individual goes through Instance::new
GeneticLoad(checkpoint) ==
    [generation |-> checkpoint.state.generation,
     count |-> checkpoint.state.count,
     population |-> [i \in 1..Len(checkpoint.state.individuals) |->
                        NewIndividual(checkpoint.state.individuals[i])]]

\* The process starts: Autotuner::new makes a fresh temp dir; run registers
\* the handler, clones the options and builds output, state, temp_results
\* and best_overall.
StartGenetic(st) ==
    /\ options' = config
    /\ ranking' = RankingNew(direction, ranking.capacity)
    /\ history' = <<>>
    /\ state' = st
    /\ temp_results' = <<>>
    /\ best_overall' = DirectionWorst(direction)
    /\ SetSig([blocked |-> FALSE, pending |-> FALSE, is_canceled |-> FALSE])
    /\ files' = {}
    /\ output' = None
    /\ runs' = runs + 1
    /\ sinceCheck' = 0
    /\ observed' = FALSE
    /\ UNCHANGED best_ever
    /\ evaluation_results' = <<>> /\ len' = 0 /\ index' = 0
    /\ holes' = <<>> /\ children' = <<>> /\ child' = None
    /\ lastEval' = None
    /\ helper' = New
    /\ pc' = "g_top"
    /\ UNCHANGED <<direction, pushed, lastBest, confVars, evaluated,
                   individual, count, config>>

InitGenetic ==
    /\ direction \in Directions
    /\ criterion \in {"Minimum", "Maximum"}
    /\ profile \in GeneticProfiles
    /\ hooks \in {<<>>, <<"veto">>}
    /\ config \in GeneticOptions
    /\ kernel \in Kernels
    /\ ranking = RankingNew(direction, 2)
    /\ pushed = <<>> /\ lastBest = None /\ output = None
    /\ pc = "start"
    /\ blocked = FALSE /\ pending = FALSE /\ is_canceled = FALSE
    /\ files = {} /\ lastEval = None /\ evaluated = <<>>
    /\ runs = 0 /\ state = None /\ individual = None /\ count = 0
    /\ options = None /\ temp_results = <<>>
    /\ best_overall = 0 /\ evaluation_results = <<>> /\ len = 0 /\ index = 0
    /\ holes = <<>> /\ children = <<>> /\ child = None /\ history = <<>>
    /\ sinceCheck = 0 /\ observed = FALSE /\ best_ever = DirectionWorst(direction)
    /\ post = <<>> /\ repetition = 1
    /\ helper = [pre |-> 0, post |-> 0]

\* the part of a step that stops the process with a panic
Panic ==
    /\ pc' = "panic"
    /\ helper' = Drop(helper)
    /\ UNCHANGED <<rankVars, confVars, sigVars, evalVars, runs, state, individual,
                   count, genVars, histVars>>

GStart ==
    /\ pc = "start"
    /\ \E st \in GeneticStateNew(profile, config.initial) : StartGenetic(st)

\* loop { let mut evaluation_results = ..; let len = ..; let mut index = 0;
GTop ==
    /\ pc = "g_top"
    /\ evaluation_results' = <<>>
    /\ len' = Len(state.population)
    /\ index' = 0
    /\ pc' = "ge_head"
    /\ UNCHANGED <<rankVars, confVars, helpVars, sigVars, evalVars, runs, state, individual,
                   count, config, options, temp_results, best_overall, holes,
                   children, child, history, histVars>>

\* while index < len
GeHead ==
    /\ pc = "ge_head"
    /\ pc' = IF index < len THEN "ge_block" ELSE "ge_after"
    /\ UNCHANGED <<rankVars, confVars, helpVars, sigVars, evalVars, runs, state, individual,
                   count, genVars, histVars>>

\* guard!(SIGQUIT, ...): block
GeBlock ==
    /\ pc = "ge_block"
    /\ SetSig(block(Sig))
    /\ pc' = "ge_body"
    /\ UNCHANGED <<rankVars, confVars, helpVars, evalVars, runs, state, individual, count,
                   genVars, histVars>>

\* the guarded body: the cached or evaluated result; in generation 1 an
\* invalid individual is sampled again and the iteration is `continue`d,
\* otherwise the result is recorded
GeBody ==
    /\ pc = "ge_body"
    /\ LET cached == index \in DOMAIN temp_results
           ev == Evaluate(profile, criterion, hooks, post, files,
                          state.population[index + 1],
                          <<Measured(state.population[index + 1])>>)
           result == IF cached THEN temp_results[index] ELSE ev.fitness
       IN  IF ~cached /\ ev.end = "panic" THEN Panic
           ELSE
           /\ \E again \in Sample(profile) :
              /\ files' = IF cached THEN files ELSE ev.files
              /\ lastEval' = IF cached THEN lastEval ELSE ev.log
              /\ IF state.generation = 1 /\ IsInfinite(result)
                 THEN /\ state' = [state EXCEPT !.population[index + 1] = again]
                      /\ pc' = "ge_head"
                      /\ UNCHANGED <<ranking, evaluation_results, index>>
                 ELSE /\ ranking' = RankingPush(ranking, state.population[index + 1],
                                                result)
                      /\ evaluation_results' =
                             Append(evaluation_results, <<result, index>>)
                      /\ index' = index + 1
                      /\ pc' = "ge_unblock"
                      /\ UNCHANGED state
           /\ sinceCheck' = IF sinceCheck < 2 THEN sinceCheck + 1 ELSE 2
           /\ UNCHANGED best_ever
           /\ UNCHANGED <<direction, pushed, lastBest, output, confVars, helpVars,
                          sigVars, evaluated, runs, individual, count, config,
                          options, temp_results, best_overall, len, holes,
                          children, child, history, observed>>

\* guard!(SIGQUIT, ...): unblock
GeUnblock ==
    /\ pc = "ge_unblock"
    /\ SetSig(unblock(Sig))
    /\ pc' = "ge_check"
    /\ UNCHANGED <<rankVars, confVars, helpVars, evalVars, runs, state, individual, count,
                   genVars, histVars>>

\* if *is_canceled { break; }
GeCheck ==
    /\ pc = "ge_check"
    /\ pc' = IF is_canceled THEN "ge_after" ELSE "ge_head"
    /\ sinceCheck' = 0
    /\ observed' = is_canceled
    /\ UNCHANGED best_ever
    /\ UNCHANGED <<rankVars, confVars, helpVars, sigVars, evalVars, runs, state, individual,
                   count, genVars>>

\* behind the while: if *is_canceled { break; }
GeAfter ==
    /\ pc = "ge_after"
    /\ pc' = IF is_canceled THEN "g_end" ELSE "g_summary"
    /\ sinceCheck' = 0
    /\ observed' = is_canceled
    /\ UNCHANGED best_ever
    /\ UNCHANGED <<rankVars, confVars, helpVars, sigVars, evalVars, runs, state, individual,
                   count, genVars>>

\* the finite results of the generation
FiniteResults(results) ==
    LET all == [i \in 1..Len(results) |-> results[i][1]]
    IN  SelectSeq(all, IsFinite)

\* record the generation summary, the endurance count, the termination
\* check and the generation count
GSummary ==
    /\ pc = "g_summary"
    /\ LET boundaries == Boundaries(direction, FiniteResults(evaluation_results))
           global_best == RankingBest(ranking)
           improved == DirectionCompare(direction, boundaries.best, best_overall)
                           = "Greater"
           counted == IF improved THEN 0 ELSE state.count + 1
           endured == /\ options.terminate.endure # None
                      /\ counted = options.terminate.endure.some
           limited == /\ options.terminate.limit # None
                      /\ state.generation + 1 > options.terminate.limit.some
       IN  IF global_best = None
           THEN Panic
           ELSE /\ history' = Append(history,
                                 [global_best |-> global_best.fitness,
                                  current_best |-> boundaries.best,
                                  current_worst |-> boundaries.worst])
                /\ best_overall' = IF improved THEN boundaries.best ELSE best_overall
                /\ best_ever' =
                       IF DirectionCompare(direction, boundaries.best, best_ever)
                              = "Greater"
                       THEN boundaries.best ELSE best_ever
                /\ state' = [state EXCEPT
                                !.count = counted,
                                !.generation = IF endured THEN @ ELSE @ + 1]
                /\ pc' = IF endured \/ limited THEN "g_end" ELSE "g_select"
                /\ UNCHANGED <<rankVars, confVars, helpVars, sigVars, evalVars, runs,
                               individual, count, config, options, temp_results,
                               evaluation_results, len, index, holes, children,
                               child, sinceCheck, observed>>

\* the roulette the holes are drawn from, before the shuffle; the usize
\* len - remain of a build without overflow checks wraps for remain > len,
\* and truncate then cuts nothing
Inverted(dir, results, worst, remain) ==
    LET inverted == [i \in 1..Len(results) |->
                        <<IF IsInfinite(results[i][1]) THEN worst
                          ELSE IF dir = "Minimize" THEN results[i][1]
                          ELSE worst - results[i][1],
                          results[i][2]>>]
        sorted == DirectionSort(dir, inverted)
    IN  SubSeq(sorted, 1, IF remain > Len(sorted) THEN Len(sorted)
                          ELSE Len(sorted) - remain)

\* the roulette the parents are drawn from, before the shuffle
Weighted(dir, results, best, worst) ==
    [i \in 1..Len(results) |->
        <<IF IsInfinite(results[i][1]) THEN best
          ELSE IF dir = "Minimize" THEN worst - results[i][1]
          ELSE results[i][1],
          results[i][2]>>]

\* select individuals to remove, weigh the parents, and enter the child loop
GSelect ==
    /\ pc = "g_select"
    /\ LET boundaries == Boundaries(direction, FiniteResults(evaluation_results))
           inverted == Inverted(direction, evaluation_results, boundaries.worst,
                                options.remain)
           \* len - remain overflows: a build with overflow checks panics
           overflows == IF options.remain > Len(evaluation_results)
                        THEN {TRUE, FALSE} ELSE {FALSE}
       IN  \E overflow \in overflows :
           IF overflow \/ ~SusAsserts(inverted, options.delete.value)
           THEN Panic
           ELSE /\ \E shuffled \in Shuffles(inverted) :
                      holes' \in StochasticUniversalSampling(shuffled,
                                                             options.delete.value)
                /\ evaluation_results' \in
                       Shuffles(Weighted(direction, evaluation_results,
                                         boundaries.best, boundaries.worst))
                /\ children' = <<>>
                /\ temp_results' = <<>>
                /\ index' = 0
                /\ pc' = "gc_head"
                /\ UNCHANGED <<rankVars, confVars, helpVars, sigVars, evalVars, runs, state,
                               individual, count, config, options, best_overall,
                               len, child, history, histVars>>

\* while index < options.generate.value
GcHead ==
    /\ pc = "gc_head"
    /\ pc' = IF index < options.generate.value THEN "gc_breed" ELSE "g_replace"
    /\ UNCHANGED <<rankVars, confVars, helpVars, sigVars, evalVars, runs, state, individual,
                   count, genVars, histVars>>

\* two parents by stochastic universal sampling, crossover, mutate
GcBreed ==
    /\ pc = "gc_breed"
    /\ IF \/ ~SusAsserts(evaluation_results, 2)
          \/ RandomBoolPanics(options.mutate.probability.value)
       THEN Panic
       ELSE /\ \E result \in StochasticUniversalSampling(evaluation_results, 2) :
               \E crossed \in Crossover(profile, state.population[result[1] + 1],
                                        state.population[result[2] + 1]) :
                  child' \in Mutate(profile, options.mutate, crossed)
            /\ pc' = "gc_block"
            /\ UNCHANGED <<rankVars, confVars, helpVars, sigVars, evalVars, runs, state,
                           individual, count, config, options, temp_results,
                           best_overall, evaluation_results, len, index, holes,
                           children, history, histVars>>

\* guard!(SIGQUIT, ...): block
GcBlock ==
    /\ pc = "gc_block"
    /\ SetSig(block(Sig))
    /\ pc' = "gc_body"
    /\ UNCHANGED <<rankVars, confVars, helpVars, evalVars, runs, state, individual, count,
                   genVars, histVars>>

\* the guarded body: evaluate the child; an invalid child is `continue`d
\* (retry), a valid one has its result cached under its future index
GcBody ==
    /\ pc = "gc_body"
    /\ LET ev == Evaluate(profile, criterion, hooks, post, files, child,
                           <<Measured(child)>>) IN
       IF ev.end = "panic" THEN Panic
       ELSE
          /\ files' = ev.files
          /\ lastEval' = ev.log
          /\ IF IsInfinite(ev.fitness)
             THEN /\ pc' = "gc_head"
                  /\ UNCHANGED temp_results
             ELSE /\ temp_results' =
                         Insert(temp_results,
                                IF index < options.delete.value
                                THEN holes[index + 1] ELSE index,
                                ev.fitness)
                  /\ pc' = "gc_unblock"
          /\ UNCHANGED <<rankVars, confVars, helpVars, sigVars, evaluated, runs,
                         state, individual, count, config, options,
                         best_overall, evaluation_results, len, index, holes,
                         children, child, history, histVars>>

\* guard!(SIGQUIT, ...): unblock
GcUnblock ==
    /\ pc = "gc_unblock"
    /\ SetSig(unblock(Sig))
    /\ pc' = "gc_push"
    /\ UNCHANGED <<rankVars, confVars, helpVars, evalVars, runs, state, individual, count,
                   genVars, histVars>>

\* children.push(child); index += 1;
GcPush ==
    /\ pc = "gc_push"
    /\ children' = Append(children, child)
    /\ index' = index + 1
    /\ pc' = "gc_head"
    /\ UNCHANGED <<rankVars, confVars, helpVars, sigVars, evalVars, runs, state, individual,
                   count, config, options, temp_results, best_overall,
                   evaluation_results, len, holes, child, history, histVars>>

\* replace individuals with children, append or remove the surplus, infuse
\* fresh samples, and step the options
GReplace ==
    /\ pc = "g_replace"
    /\ LET min == IF options.generate.value < options.delete.value
                  THEN options.generate.value ELSE options.delete.value
           kept == SubSeq(children, 1, min)
           generated == SubSeq(children, min + 1, Len(children))
           targets == SubSeq(holes, 1, min)
           deleted == SubSeq(holes, min + 1, Len(holes))
           replaced == ReplaceAll(state.population, targets, kept, 1) \o generated
           removed == RemoveAll(replaced, deleted, 1)
       IN  IF removed = None
           THEN Panic
           ELSE /\ \E infused \in SeqProduct([i \in 1..options.infuse.value |->
                                                 Sample(profile)]) :
                      state' = [state EXCEPT !.population = removed.some \o infused]
                /\ options' = OptionsStep(options)
                /\ pc' = "g_top"
                /\ UNCHANGED <<rankVars, confVars, helpVars, sigVars, evalVars, runs,
                               individual, count, config, temp_results,
                               best_overall, evaluation_results, len, index,
                               holes, children, child, history, histVars>>

\* if *is_canceled { second!(state.into()) } else { first!(output.into_json()) }
GEnd ==
    /\ pc = "g_end"
    /\ output' = IF is_canceled
                 THEN Second(GeneticCheckpoint(state))
                 ELSE First([ranking |-> RankingIntoJson(ranking),
                             history |-> history])
    /\ helper' = Drop(helper)
    /\ pc' = "exit"
    /\ UNCHANGED <<direction, ranking, pushed, lastBest, confVars, sigVars,
                   evalVars, runs, state, individual, count, genVars, histVars>>

\* The program is started again with --continue on the checkpoint written.
GResume ==
    /\ pc = "exit"
    /\ output # None /\ output.union = "Second"
    /\ runs < MaxRuns
    /\ StartGenetic(GeneticLoad(output.value))

NextGenetic ==
    \/ GStart \/ GTop \/ GeHead \/ GeBlock \/ GeBody \/ GeUnblock \/ GeCheck
    \/ GeAfter \/ GSummary \/ GSelect \/ GcHead \/ GcBreed \/ GcBlock \/ GcBody
    \/ GcUnblock \/ GcPush \/ GReplace \/ GEnd \/ GResume \/ Sigquit

SpecGenetic == InitGenetic /\ [][NextGenetic]_vars

\* The run under its scheduling: the process is never suspended for good, so
\* while it has a step to take it takes one.  What an evaluation returns and
\* what the sampling draws stays open.  The runs are those of the vetoing
\* pre-hook under Minimize.
InitFair == InitGenetic /\ hooks = <<"veto">> /\ direction = "Minimize"

FairGenetic == InitFair /\ [][NextGenetic]_vars /\ WF_vars(NextGenetic)

(***************************************************************************)
(* crossover and mutate on their own: a profile of one parameter of any    *)
(* kind, the bounds of a Sequence and the parents' values taken from the   *)
(* ends and the middle of the i32 range, and a mutation table in options.  *)
(* state.population holds the two parents, child receives the result of    *)
(* crossover, individual the first parent mutated.                         *)
(***************************************************************************)
Edges ==
    {I32Min, I32Min + 1, I32Max - 1, I32Max} \cup ((0 - MaxHi)..MaxHi)

CrossProfiles ==
    {<<Sequence(b[1], b[2])>> : b \in {e \in Edges \X Edges : e[1] <= e[2]}}
    \cup {<<SwitchSpec>>, <<Candidates(<<4, 8>>)>>, <<Keyword(<<"row", "col">>)>>}

InitCross ==
    /\ profile \in CrossProfiles
    /\ \E a, b \in IF profile[1].kind = "Sequence"
                    THEN {Integer(v) : v \in {e \in Edges : /\ profile[1].lo <= e
                                                            /\ e <= profile[1].hi}}
                    ELSE SpaceRandom(profile[1]) :
          state = [generation |-> 1, count |-> 0,
                   population |-> <<NewIndividual(<<a>>), NewIndividual(<<b>>)>>]
    /\ child = None
    /\ pc = "cross"
    /\ direction = "Minimize" /\ criterion = "Minimum"
    /\ hooks = <<>> /\ post = <<>> /\ repetition = 1 /\ kernel = <<>>
    /\ ranking = RankingNew(direction, 1)
    /\ pushed = <<>> /\ lastBest = None /\ output = None
    /\ blocked = FALSE /\ pending = FALSE /\ is_canceled = FALSE
    /\ files = {} /\ lastEval = None /\ evaluated = <<>>
    /\ runs = 0 /\ individual = None /\ count = 0
    /\ config = None /\ temp_results = <<>>
    /\ options \in {[mutate |-> [probability |-> Real(p, None),
                                 variation |-> Real(v, None)]] :
                        p \in {Ratio(0, 1), Ratio(1, 2), Ratio(1, 1), Ratio(2, 1)},
                        v \in {Ratio(1, 2), Ratio(1, 1)}}
    /\ best_overall = 0 /\ evaluation_results = <<>> /\ len = 0 /\ index = 0
    /\ holes = <<>> /\ children = <<>> /\ history = <<>>
    /\ sinceCheck = 0 /\ observed = FALSE /\ best_ever = 0
    /\ helper = [pre |-> 0, post |-> 0]

\* child = crossover(&profile, &population[0], &population[1]); an
\* overflowing sum panics or wraps, as the build has it
Cross ==
    /\ pc = "cross"
    /\ \/ /\ child' \in Crossover(profile, state.population[1], state.population[2])
          /\ pc' = "done"
       \/ /\ CrossoverPanics(profile, state.population[1], state.population[2])
          /\ child' = None
          /\ pc' = "panic"
    /\ UNCHANGED <<rankVars, confVars, helpVars, sigVars, evalVars, runs, state,
                   individual, count, config, options, temp_results,
                   best_overall, evaluation_results, len, index, holes,
                   children, history, histVars>>

\* mutate(&profile, &options.mutate, &mut individual) on the first parent;
\* a panicking step aborts, an overflow panics or wraps as the build has it
Mutation ==
    /\ pc = "cross"
    /\ \/ /\ individual' \in Mutate(profile, options.mutate, state.population[1])
          /\ pc' = "mutated"
       \/ /\ MutatePanics(profile, options.mutate, state.population[1])
          /\ individual' = None
          /\ pc' = "abort"
    /\ UNCHANGED <<rankVars, confVars, helpVars, sigVars, evalVars, runs, state,
                   child, count, config, options, temp_results,
                   best_overall, evaluation_results, len, index, holes,
                   children, history, histVars>>

SpecCross == InitCross /\ [][Cross \/ Mutation]_vars

(***************************************************************************)
(* stochastic_universal_sampling on its own: any roulette of up to         *)
(* MaxEntries entries with weights up to MaxWeight and a positive total,   *)
(* and the roulettes of the documented examples; any n up to               *)
(* MaxSelections; any start.  evaluation_results holds the roulette, len   *)
(* holds n and holes receives the selection.                               *)
(***************************************************************************)
MaxEntries == 3
MaxWeight == 2
MaxSelections == 5

\* the roulettes, entry i carrying the weight w[i] and the index i - 1
Roulettes ==
    {[i \in 1..Len(w) |-> <<w[i], i - 1>>] :
        w \in UNION {[1..k -> 0..MaxWeight] : k \in 1..MaxEntries}
               \cup {<<1, 1, 1, 1>>, <<4, 1>>, <<10, 0>>, <<0, 10>>}}

InitSus ==
    /\ evaluation_results \in {r \in Roulettes : SusAsserts(r, 1)}
    /\ len \in 1..MaxSelections
    /\ holes = <<>>
    /\ pc = "sus"
    /\ direction = "Minimize" /\ criterion = "Minimum" /\ profile = <<>>
    /\ hooks = <<>> /\ post = <<>> /\ repetition = 1 /\ kernel = <<>>
    /\ ranking = RankingNew(direction, 1)
    /\ pushed = <<>> /\ lastBest = None /\ output = None
    /\ blocked = FALSE /\ pending = FALSE /\ is_canceled = FALSE
    /\ files = {} /\ lastEval = None /\ evaluated = <<>>
    /\ runs = 0 /\ state = None /\ individual = None /\ count = 0
    /\ config = None /\ options = None /\ temp_results = <<>>
    /\ best_overall = 0 /\ index = 0
    /\ children = <<>> /\ child = None /\ history = <<>>
    /\ sinceCheck = 0 /\ observed = FALSE /\ best_ever = 0
    /\ helper = [pre |-> 0, post |-> 0]

\* holes = stochastic_universal_sampling(&roulette, n)
Select ==
    /\ pc = "sus"
    /\ holes' \in StochasticUniversalSampling(evaluation_results, len)
    /\ pc' = "done"
    /\ UNCHANGED <<rankVars, confVars, helpVars, sigVars, evalVars, runs, state,
                   individual, count, config, options, temp_results,
                   best_overall, evaluation_results, len, index, children,
                   child, history, histVars>>

SpecSus == InitSus /\ [][Select]_vars

(***************************************************************************)
(* The selection step of a later generation on its own: the generation's   *)
(* results are any list of up to MaxEntries fitnesses, each feasible       *)
(* (positive, zero or negative) or the criterion's sentinel of an invalid  *)
(* evaluation, as the evaluation loop leaves them from generation 2 on.    *)
(***************************************************************************)
InitSelect ==
    /\ direction \in Directions
    /\ criterion \in {"Minimum", "Maximum"}
    /\ profile \in GeneticProfiles
    /\ config \in {[o EXCEPT !.terminate = [limit |-> None, endure |-> None]] :
                       o \in GeneticOptions}
    /\ options = config
    /\ evaluation_results \in
           {[i \in 1..Len(f) |-> <<f[i], i - 1>>] :
               f \in UNION {[1..k -> (-MaxFitness..MaxFitness)
                                      \cup {CriterionInvalid(criterion)}] :
                               k \in 1..MaxEntries}}
    /\ len = Len(evaluation_results) /\ index = len
    /\ state = [generation |-> 3, count |-> 0,
                population |-> [i \in 1..len |-> NewIndividual(<<Integer(0)>>)]]
    /\ pc = "g_select"
    /\ hooks = <<>> /\ post = <<>> /\ repetition = 1 /\ kernel = <<>>
    /\ ranking = RankingPush(RankingNew(direction, 1), state.population[1],
                             evaluation_results[1][1])
    /\ pushed = <<>> /\ lastBest = None /\ output = None
    /\ blocked = FALSE /\ pending = FALSE /\ is_canceled = FALSE
    /\ files = {} /\ lastEval = None /\ evaluated = <<>>
    /\ runs = 1 /\ individual = None /\ count = 0
    /\ temp_results = <<>>
    /\ best_overall = Boundaries(direction,
                                 FiniteResults(evaluation_results)).best
    /\ holes = <<>> /\ children = <<>> /\ child = None /\ history = <<>>
    /\ sinceCheck = 0 /\ observed = FALSE /\ best_ever = 0
    /\ helper = New

SpecSelect == InitSelect /\ [][GSelect]_vars

(***************************************************************************)
(* Criterion::representative and Direction::compare on their own: kernel   *)
(* is a list of up to MaxValues fitnesses, finite or infinite, or one of   *)
(* the documented lists; output receives what the function returns.        *)
(***************************************************************************)
MaxValues == 3

InitCriterion ==
    /\ criterion \in Criteria
    /\ direction \in Directions
    /\ kernel \in UNION {[1..n -> (0..MaxFitness) \cup {NEG_INFINITY, INFINITY}] :
                            n \in 1..MaxValues}
                  \cup {<<1, 3, 2>>, <<7, 2, 9, 4, 3>>}
    /\ output = None
    /\ pc = "criterion"
    /\ profile = <<>> /\ hooks = <<>> /\ post = <<>> /\ repetition = Len(kernel)
    /\ ranking = RankingNew(direction, 1)
    /\ pushed = <<>> /\ lastBest = None
    /\ blocked = FALSE /\ pending = FALSE /\ is_canceled = FALSE
    /\ files = {} /\ lastEval = None /\ evaluated = <<>>
    /\ runs = 0 /\ state = None /\ individual = None /\ count = 0
    /\ config = None /\ options = None /\ temp_results = <<>>
    /\ best_overall = 0 /\ evaluation_results = <<>> /\ len = 0 /\ index = 0
    /\ holes = <<>> /\ children = <<>> /\ child = None /\ history = <<>>
    /\ sinceCheck = 0 /\ observed = FALSE /\ best_ever = 0
    /\ helper = [pre |-> 0, post |-> 0]

\* criterion.representative(fitnesses)
Represent ==
    /\ pc = "criterion"
    /\ output' = [fitness |-> Representative(criterion, kernel)]
    /\ pc' = "represented"
    /\ UNCHANGED <<direction, ranking, pushed, lastBest, confVars, helpVars,
                   sigVars, evalVars, runs, state, individual, count, genVars,
                   histVars>>

\* direction.compare(a, b) and direction.compare(b, a) for two of the
\* fitnesses
Compare ==
    /\ pc = "criterion"
    /\ \E i, j \in 1..Len(kernel) :
          output' = [a |-> kernel[i], b |-> kernel[j],
                     ordering |-> DirectionCompare(direction, kernel[i], kernel[j]),
                     reverse |-> DirectionCompare(direction, kernel[j], kernel[i])]
    /\ pc' = "compared"
    /\ UNCHANGED <<direction, ranking, pushed, lastBest, confVars, helpVars,
                   sigVars, evalVars, runs, state, individual, count, genVars,
                   histVars>>

SpecCriterion == InitCriterion /\ [][Represent \/ Compare]_vars

(***************************************************************************)
(* The get function handed to native code: a hook receives hook.rs's get,  *)
(* the runner runner.rs's.  index is the id the native code asks for,      *)
(* output the callback it is given ("null" for a null pointer).            *)
(***************************************************************************)
MaxId == 49

\* hook.rs: Interface and get
HookGet(id) ==
    CASE id = 0 -> "context_get_working_directory"
      [] id = 1 -> "context_invalidate"
      [] id = 2 -> "context_append_argument"
      [] id = 16 -> "parameter_get_integer"
      [] id = 17 -> "parameter_get_switch"
      [] id = 18 -> "parameter_get_keyword"
      [] id = 32 -> "workspace_get_ptr"
      [] OTHER -> "null"

\* runner.rs: Interface and get
RunnerGet(id) ==
    CASE id = 0 -> "get_ptr"
      [] id = 16 -> "result"
      [] OTHER -> "null"

InitGet ==
    /\ index \in -1..MaxId
    /\ output = None
    /\ pc = "get"
    /\ direction = "Minimize" /\ criterion = "Minimum" /\ profile = <<>>
    /\ hooks = <<>> /\ post = <<>> /\ repetition = 1 /\ kernel = <<>>
    /\ ranking = RankingNew(direction, 1)
    /\ pushed = <<>> /\ lastBest = None
    /\ blocked = FALSE /\ pending = FALSE /\ is_canceled = FALSE
    /\ files = {} /\ lastEval = None /\ evaluated = <<>>
    /\ runs = 0 /\ state = None /\ individual = None /\ count = 0
    /\ config = None /\ options = None /\ temp_results = <<>>
    /\ best_overall = 0 /\ evaluation_results = <<>> /\ len = 0
    /\ holes = <<>> /\ children = <<>> /\ child = None /\ history = <<>>
    /\ sinceCheck = 0 /\ observed = FALSE /\ best_ever = 0
    /\ helper = [pre |-> 0, post |-> 0]

\* the native code called by Hook::call or by Runner::call asks the get it
\* was handed for the callback of an id
Resolve ==
    /\ pc = "get"
    /\ \E caller \in {"hook", "runner"} :
          output' = [caller |-> caller,
                     callback |-> IF caller = "hook" THEN HookGet(index)
                                  ELSE RunnerGet(index)]
    /\ pc' = "resolved"
    /\ UNCHANGED <<direction, ranking, pushed, lastBest, confVars, helpVars,
                   sigVars, evalVars, runs, state, individual, count, genVars,
                   histVars>>

SpecGet == InitGet /\ [][Resolve]_vars

(***************************************************************************)
(* Properties of the ranking.                                              *)
(***************************************************************************)
\* a is at least as good as b under the direction
AsGood(dir, a, b) == IF dir = "Minimize" THEN a <= b ELSE a >= b

\* the k best fitnesses of s under the direction, ascending
TopK(dir, s, k) ==
    LET a == SortAsc(s)
        n == Len(a)
        m == IF k < n THEN k ELSE n
    IN  IF dir = "Minimize" THEN SubSeq(a, 1, m) ELSE SubSeq(a, n - m + 1, n)

Retained(r) == [i \in 1..Len(r.heap.data) |-> r.heap.data[i].fitness]

\* C8: after each push the Ranking holds at most K entries, and they are
\* exactly the K best fitnesses pushed so far under the direction (all of
\* them when fewer than K were pushed).
C8_RankingHoldsTopK ==
    /\ Len(ranking.heap.data) <= ranking.capacity
    /\ SortAsc(Retained(ranking)) = TopK(direction, pushed, ranking.capacity)

\* C8 witness: more pushes than places, of different fitnesses, so an entry
\* was evicted.
C8_Witness ==
    /\ ranking.capacity >= 2
    /\ Len(pushed) > ranking.capacity
    /\ Len(ranking.heap.data) = ranking.capacity
    /\ \E i, j \in 1..Len(pushed) : i < j /\ pushed[i] < pushed[j]
    /\ \E i, j \in 1..Len(pushed) : i < j /\ pushed[i] > pushed[j]

\* C9: best() returns an entry whose fitness is the best, under the
\* direction, of all the fitnesses pushed up to the call (capacity >= 1).
C9_BestIsOverallBest ==
    (lastBest # None /\ ranking.capacity >= 1) =>
        \A i \in 1..lastBest.n : AsGood(direction, lastBest.fitness, pushed[i])

\* C10: the results document lists the retained entries best first under
\* the direction, whatever the order of the pushes.
C10_ResultsBestFirst ==
    (output # None /\ output.union = "First") =>
        \A i, j \in 1..Len(output.value) :
            i < j => AsGood(direction, output.value[i], output.value[j])

\* the fitnesses of s that are not the criterion's sentinel, in order
RECURSIVE Feasible(_, _)
Feasible(crit, s) ==
    IF s = <<>> THEN <<>>
    ELSE IF Head(s) = CriterionInvalid(crit) THEN Feasible(crit, Tail(s))
         ELSE <<Head(s)>> \o Feasible(crit, Tail(s))

\* C11: whatever the criterion and the direction, an evaluation that yielded
\* the criterion's invalid sentinel never takes the place of a feasible one:
\* the retained entries include the best feasible fitnesses pushed so far,
\* as many as fit, and once a feasible fitness was pushed the entry best()
\* returns is not the sentinel.
C11_InvalidNeverBest ==
    LET feasible == Feasible(criterion, pushed)
        kept == Feasible(criterion, Retained(ranking))
    IN  /\ SortAsc(kept) = TopK(direction, feasible, ranking.capacity)
        /\ (feasible # <<>> /\ ranking.capacity >= 1) =>
               RankingBest(ranking).fitness # CriterionInvalid(criterion)

(***************************************************************************)
(* Properties of one evaluation and of the helper's life cycle.            *)
(***************************************************************************)
HookNames(kind, names) == [i \in 1..Len(names) |-> <<kind, names[i]>>]

\* the individual's path did not exist when the last evaluation began
WasMissing == ~PathExists(lastEval.log.before, SoPath(lastEval.log.individual))

\* C12: when the context result is Invalid once the pre-hooks have run,
\* evaluate returns the criterion's sentinel at once: every pre-hook was
\* called and nothing else; nothing was compiled, loaded or run and no
\* post-hook was called.
C12_PreHookInvalidReturnsAtOnce ==
    (lastEval # None /\ HookInvalidates(hooks, lastEval.log.individual)) =>
        /\ lastEval.fitness = CriterionInvalid(criterion)
        /\ lastEval.end = "done"
        /\ lastEval.calls = HookNames("pre", hooks)
        /\ ~lastEval.log.compiled
        /\ ~lastEval.log.loaded
        /\ files = lastEval.log.before

\* C12 witness: a pre-hook invalidated an individual whose shared object did
\* not exist, with post-hooks configured.
C12_Witness ==
    /\ lastEval # None
    /\ HookInvalidates(hooks, lastEval.log.individual)
    /\ WasMissing
    /\ post # <<>>
    /\ repetition >= 1

C14_CallsInOrder ==
    (/\ lastEval # None
     /\ ~HookInvalidates(hooks, lastEval.log.individual)
     /\ lastEval.end = "done")
    => lastEval.calls =
          HookNames("pre", hooks)
          \o (IF WasMissing THEN <<<<"compile", "so">>>> ELSE <<>>)
          \o <<<<"load", "so">>>>
          \o [i \in 1..repetition |-> <<"runner", "call">>]
          \o HookNames("post", post)

\* C14 witness: two pre-hooks, a compilation, two runner calls, two
\* post-hooks.
C14_Witness ==
    /\ lastEval # None
    /\ ~HookInvalidates(hooks, lastEval.log.individual)
    /\ lastEval.end = "done"
    /\ Len(hooks) = 2 /\ Len(post) = 2 /\ repetition = 2
    /\ lastEval.log.compiled

\* C15: in a process that constructed the Autotuner the helper's pre was
\* called exactly once, before any hook or runner call; its post is called
\* only when the process is over, and a process that is over, however it
\* ended, has called it exactly once.
C15_HelperPreAndPostOnce ==
    /\ (pc # "start" => helper.pre = 1)
    /\ (lastEval # None => helper.pre = 1)
    /\ (helper.post > 0 => pc \in {"exit", "panic"})
    /\ (pc \in {"exit", "panic"} => helper.post = 1)

(***************************************************************************)
(* Properties of the exhaustive run.                                       *)
(***************************************************************************)
\* the d-th value (from 0) of a space, in the order of first / next
NthValue(sp, d) ==
    CASE sp.kind = "Sequence" -> Integer(sp.lo + d)
      [] sp.kind = "Switch" -> Switch(d)
      [] OTHER -> Index(d)

\* the number of combinations of the parameters to the right of i
Weight(prof, i) == ProfileLenFrom(prof, i + 1)

\* the k-th (from 1) parameter map of the lexicographic enumeration, the
\* last parameter changing fastest
NthCombination(prof, k) ==
    [i \in 1..Len(prof) |->
        NthValue(prof[i], ((k - 1) \div Weight(prof, i)) % SpaceLen(prof[i]))]

Enumeration(prof) == [k \in 1..ProfileLen(prof) |-> NthCombination(prof, k)]

\* C6: whenever an exhaustive run is cancelled and resumed from the written
\* Checkpoint, the evaluations of the runs together follow the uninterrupted
\* enumeration: always a prefix of it, and all of it, each individual once,
\* when the results are emitted.
C6_ResumeContinuesEnumeration ==
    /\ Len(evaluated) <= ProfileLen(profile)
    /\ \A k \in 1..Len(evaluated) : evaluated[k] = NthCombination(profile, k)
    /\ (pc = "exit" /\ output.union = "First") =>
           evaluated = Enumeration(profile)

\* C6 witness: a resumed run has emitted the results, having evaluated some
\* individuals itself after a first run that evaluated some and was cancelled.
C6_Witness ==
    /\ pc = "exit" /\ output.union = "First"
    /\ runs = 2
    /\ count > 1
    /\ count - 1 < Len(evaluated)

(***************************************************************************)
(* Properties of Profile::iter.                                            *)
(***************************************************************************)
\* C16: Profile::iter yields pairwise distinct Individuals, never more than
\* Profile::len of them, and exactly Profile::len of them when it has ended;
\* for every profile, those without parameters, with one-element spaces and
\* with an empty Candidates or Keyword list included.
C16_IterYieldsLenDistinct ==
    /\ Len(evaluated) <= ProfileLen(profile)
    /\ \A i, j \in 1..Len(evaluated) : i # j => evaluated[i] # evaluated[j]
    /\ (pc = "done" => Len(evaluated) = ProfileLen(profile))

\* the values of a space
SpaceValues(sp) == {NthValue(sp, d) : d \in 0..(SpaceLen(sp) - 1)}

\* the parameter combinations of a profile
Combinations(prof) ==
    SeqProduct([i \in 1..Len(prof) |-> SpaceValues(prof[i])])

\* a comes before b in the lexicographic order of the parameter order
LexLess(a, b) ==
    \E i \in 1..Len(a) : a[i].v < b[i].v /\ \A j \in 1..(i - 1) : a[j] = b[j]

\* C17: Profile::iter yields the parameter combinations in lexicographic
\* order over the profile's parameter order, the last parameter changing
\* fastest, each once and none skipped: what was yielded so far ascends
\* strictly, every combination up to the last one yielded was yielded, and
\* at the end every combination was.
C17_IterIsLexicographic ==
    LET n == Len(evaluated) IN
    /\ \A k \in 1..(n - 1) : LexLess(evaluated[k], evaluated[k + 1])
    /\ \A c \in Combinations(profile) :
          (pc = "done" \/ (n > 0 /\ ~LexLess(evaluated[n], c)))
              => \E k \in 1..n : evaluated[k] = c

\* C17 witness: {A: Sequence(0, 2..), B: Switch} has yielded (0,F), (0,T),
\* (1,F), (1,T), (2,F), (2,T).
C17_Witness ==
    /\ Len(profile) = 2
    /\ profile[1].kind = "Sequence" /\ profile[1].lo = 0 /\ profile[1].hi >= 2
    /\ profile[2] = SwitchSpec
    /\ Len(evaluated) >= 6
    /\ SubSeq(evaluated, 1, 6) =
          << <<Integer(0), Switch(0)>>, <<Integer(0), Switch(1)>>,
             <<Integer(1), Switch(0)>>, <<Integer(1), Switch(1)>>,
             <<Integer(2), Switch(0)>>, <<Integer(2), Switch(1)>> >>

(***************************************************************************)
(* Properties of stochastic_universal_sampling.                            *)
(***************************************************************************)
\* how often the index is in the selection
Times(selected, ix) == Cardinality({k \in 1..Len(selected) : selected[k] = ix})

\* C18: for every roulette with non-negative weights and a positive total,
\* every n >= 1 and every start, the index of weight w is selected
\* floor(n * w / total) or ceil(n * w / total) times.
C18_SelectionsProportional ==
    pc = "done" =>
        LET total == SumFitness(evaluation_results, 1) IN
        \A i \in 1..Len(evaluation_results) :
            LET share == len * evaluation_results[i][1]
                times == Times(holes, evaluation_results[i][2])
            IN  /\ times * total > share - total
                /\ times * total < share + total

\* C19: for every n and every start the selection holds no index whose
\* weight is 0, wherever that entry sits in the roulette.
C19_ZeroWeightNeverSelected ==
    pc = "done" =>
        \A i \in 1..Len(evaluation_results) :
            evaluation_results[i][1] = 0 =>
                Times(holes, evaluation_results[i][2]) = 0

(***************************************************************************)
(* Properties of crossover.                                                *)
(***************************************************************************)
\* the value lies in the space
InSpace(sp, value) ==
    CASE sp.kind = "Sequence" ->
            value.tag = "Integer" /\ sp.lo <= value.v /\ value.v <= sp.hi
      [] sp.kind = "Switch" -> value.tag = "Switch" /\ value.v \in {0, 1}
      [] OTHER -> value.tag = "Index" /\ 0 <= value.v /\ value.v < Len(sp.items)

\* C20: the Individual that crossover yields for two parents whose values
\* lie in their spaces has every value in its space; for a Sequence(lo, hi)
\* with lo <= hi anywhere in the i32 range the child's (a + b) / 2, computed
\* in i32, lies in [lo, hi].
C20_CrossoverStaysInSpace ==
    (pc = "done" /\ child # None) =>
        \A i \in 1..Len(profile) : InSpace(profile[i], child.parameters[i])

\* C21: mutate never aborts and leaves every value of the Individual in
\* its space, whatever the mutation probability and variation; a Sequence
\* value is clamped into [lo, hi] for every lo <= hi of the i32 range.
C21_MutateStaysInSpace ==
    /\ pc # "abort"
    /\ (pc = "mutated" =>
           \A i \in 1..Len(profile) : InSpace(profile[i], individual.parameters[i]))

(***************************************************************************)
(* Properties of the spaces.                                               *)
(***************************************************************************)
RECURSIVE Visited(_, _)
\* the values visited from current on by applying next until it returns none
Visited(sp, current) ==
    IF SpaceNext(sp, current) = None THEN <<current>>
    ELSE <<current>> \o Visited(sp, SpaceNext(sp, current))

\* C22: for the space of every Specification of the profile, first() and
\* every value random() may draw are members of the space, random() has a
\* value to draw, and next applied repeatedly from first() visits every
\* member once, none twice and nothing else before it returns none, len()
\* being the number of values visited.
C22_SpaceWalkVisitsAll ==
    \A i \in 1..Len(profile) :
        LET sp == profile[i]
            walk == Visited(sp, SpaceFirst(sp))
        IN  /\ InSpace(sp, SpaceFirst(sp))
            /\ SpaceRandom(sp) # {}
            /\ \A r \in SpaceRandom(sp) : InSpace(sp, r)
            /\ \A j \in 1..Len(walk) : InSpace(sp, walk[j])
            /\ \A j, k \in 1..Len(walk) : j # k => walk[j] # walk[k]
            /\ \A r \in SpaceRandom(sp) : \E j \in 1..Len(walk) : walk[j] = r
            /\ Len(walk) = SpaceLen(sp)

(***************************************************************************)
(* Properties of Criterion::representative and Direction::compare.         *)
(***************************************************************************)
\* how many of the values satisfy the test
HowMany(values, Test(_)) == Cardinality({i \in 1..Len(values) : Test(values[i])})

\* C23: the representative of a non-empty list of fitnesses is one of its
\* elements: none is larger under Maximum, none is smaller under Minimum,
\* and under Median it stands at index floor(n / 2) of the ascending order
\* (at most floor(n / 2) elements are smaller, more than floor(n / 2) are
\* not larger).  The representative of [a] is a, the Median of [1, 3, 2]
\* is 2 and that of [7, 2, 9, 4, 3] is 4.
C23_RepresentativeIsElement ==
    pc = "represented" =>
        LET r == output.fitness
            n == Len(kernel)
            Smaller(x) == x < r
            NotLarger(x) == x <= r
        IN  /\ \E i \in 1..n : kernel[i] = r
            /\ criterion = "Maximum" => \A i \in 1..n : kernel[i] <= r
            /\ criterion = "Minimum" => \A i \in 1..n : kernel[i] >= r
            /\ criterion = "Median" =>
                   /\ HowMany(kernel, Smaller) <= n \div 2
                   /\ HowMany(kernel, NotLarger) > n \div 2
            /\ n = 1 => r = kernel[1]
            /\ (criterion = "Median" /\ kernel = <<1, 3, 2>>) => r = 2
            /\ (criterion = "Median" /\ kernel = <<7, 2, 9, 4, 3>>) => r = 4

\* C23 witness: the Median of [7, 2, 9, 4, 3] was taken and is 4.
C23_Witness ==
    /\ pc = "represented"
    /\ criterion = "Median"
    /\ kernel = <<7, 2, 9, 4, 3>>
    /\ output.fitness = 4

Listed(id) ==
    CASE id = 0 -> "context_get_working_directory"
      [] id = 1 -> "context_invalidate"
      [] id = 2 -> "context_append_argument"
      [] id = 16 -> "parameter_get_integer"
      [] id = 17 -> "parameter_get_switch"
      [] id = 18 -> "parameter_get_keyword"
      [] id = 32 -> "workspace_get_ptr"
      [] id = 48 -> "runner_result"
      [] OTHER -> "null"

\* what a callback does, whatever the file that defines it calls it
Role(callback) ==
    CASE callback = "get_ptr" -> "workspace_get_ptr"
      [] callback = "result" -> "runner_result"
      [] OTHER -> callback

\* C25: get resolves every id of the table to the callback listed for it
\* and every other id to null, for a hook and for the runner alike.
C25_GetResolvesTable ==
    pc = "resolved" => Role(output.callback) = Listed(index)

(***************************************************************************)
(* Properties of the genetic run.                                          *)
(***************************************************************************)
\* the Individuals the run holds: the population, the child in hand, the
\* children bred in this generation and the ones the ranking retains
Individuals ==
    (IF state = None THEN {}
     ELSE {state.population[i] : i \in 1..Len(state.population)})
    \cup (IF child = None THEN {} ELSE {child})
    \cup {children[i] : i \in 1..Len(children)}
    \cup {ranking.heap.data[i].individual : i \in 1..Len(ranking.heap.data)}

\* C1: at every point of a run every Individual's id is the digest of its
\* current parameters, and two Individuals have the same id exactly when
\* their parameters are equal; also for crossed-over and mutated children.
C1_IdIsDigestOfParameters ==
    /\ \A ind \in Individuals : ind.id = Digest(ind.parameters)
    /\ \A a, b \in Individuals : (a.id = b.id) <=> (a.parameters = b.parameters)

\* C2: evaluate skips the compilation iff a shared object of exactly this
\* parameter assignment was compiled before in this run, and the shared
\* object it loads was compiled with the individual's own parameter values.
C2_LoadedObjectIsOwn ==
    (lastEval # None /\ lastEval.loaded) =>
        LET own == CompilerArguments(profile, lastEval.individual) IN
        /\ lastEval.ran = own
        /\ ~lastEval.compiled <=> (\E f \in lastEval.before : f.arguments = own)

\* C3: after every safe point of the exhaustive loop and of the population
\* evaluation loop the cancel flag is read before another one starts (no two
\* bodies run without a check in between), and once a check has read the flag
\* set, the loop is left and the run ends with the State as a Checkpoint.
C3_FlagCheckedAfterEverySafePoint ==
    /\ sinceCheck <= 1
    /\ observed =>
          /\ pc \in {"x_end", "ge_after", "g_end", "exit"}
          /\ pc = "exit" => output.union = "Second"

\* C4: when a child's safe point has ended and the cancel flag is set, the
\* genetic loop is left: the next step of the run is the one that returns
\* the Checkpoint, not the next child, the replacement, infusion or step.
C4_FlagCheckedAfterEveryChild ==
    [][(pc = "gc_push" /\ is_canceled) => pc' = "g_end"]_vars

\* C5: SIGQUIT is blocked while the body of a safe point executes (so the
\* handler cannot run and the flag cannot change there), and it is unblocked,
\* with nothing left pending, whenever control is between two safe points.
C5_SigquitBlockedExactlyInBodies ==
    /\ pc \in {"x_body", "ge_body", "gc_body"} => blocked
    /\ pc \in {"x_next", "x_check", "x_end", "g_top", "ge_head", "ge_check",
               "ge_after", "g_summary", "g_select", "gc_head", "gc_breed",
               "gc_push", "g_replace", "g_end"} => ~blocked /\ ~pending

\* C7: a genetic run resumed from the Checkpoint of a cancel starts from what
\* the cancelled run held: the same population, generation counter and
\* endurance count, the same cached child fitnesses and the same current
\* values of the scheduled options.
C7_ResumeRestoresTheIteration ==
    [][(pc = "exit" /\ pc' = "g_top") =>
          /\ state'.generation = state.generation
          /\ state'.count = state.count
          /\ Len(state'.population) = Len(state.population)
          /\ \A i \in 1..Len(state.population) :
                state'.population[i].parameters = state.population[i].parameters
          /\ temp_results' = temp_results
          /\ options' = options]_vars

\* C26: a NaN read after a runner repetition aborts the run.  No evaluation
\* whose runner reported NaN has returned, and no NaN is a fitness in the
\* Ranking, a result of the generation or a weight of the parents' roulette,
\* a weight of the holes' roulette, a cached result of a child, or a number
\* of the results and history written.
C26_NaNIsFatal ==
    /\ (lastEval # None /\ lastEval.loaded) => kernel[lastEval.ran[1][2]] # NaN
    /\ \A i \in 1..Len(ranking.heap.data) : ranking.heap.data[i].fitness # NaN
    /\ \A i \in 1..Len(evaluation_results) : evaluation_results[i][1] # NaN
    /\ \A k \in DOMAIN temp_results : temp_results[k] # NaN
    /\ pc = "g_select" =>
           LET boundaries == Boundaries(direction, FiniteResults(evaluation_results))
               inverted == Inverted(direction, evaluation_results,
                                    boundaries.worst, options.remain)
           IN  \A i \in 1..Len(inverted) : inverted[i][1] # NaN
    /\ (pc = "exit" /\ output.union = "First") =>
           /\ \A i \in 1..Len(output.value.ranking) : output.value.ranking[i] # NaN
           /\ \A i \in 1..Len(output.value.history) :
                  /\ output.value.history[i].global_best # NaN
                  /\ output.value.history[i].current_best # NaN
                  /\ output.value.history[i].current_worst # NaN

\* C26 witness: in generation 1 the runner reported NaN for the individual
\* under evaluation, which no pre-hook had invalidated, and the run was
\* aborted.
C26_Witness ==
    /\ pc = "panic"
    /\ state # None /\ state.generation = 1
    /\ index < Len(state.population)
    /\ ~HookInvalidates(hooks, state.population[index + 1])
    /\ Measured(state.population[index + 1]).fitness = NaN

\* C29: every roulette the loop hands to stochastic_universal_sampling, the
\* holes' with n = delete and the parents' with n = 2, is non-empty, has no
\* negative weight and a positive total, and n is at least 1: none of the
\* routine's assertions fails.
C29_RoulettesMeetAssertions ==
    /\ pc = "g_select" =>
           LET boundaries == Boundaries(direction, FiniteResults(evaluation_results))
           IN  SusAsserts(Inverted(direction, evaluation_results, boundaries.worst,
                                   options.remain),
                          options.delete.value)
    /\ pc = "gc_breed" => SusAsserts(evaluation_results, 2)

\* the fitness an evaluation of the individual gives: the shared object at
\* the path of its id, once compiled, is the one every later evaluation
\* loads, and the kernel measures the same for it each time
FitnessOf(ind) ==
    Evaluate(profile, criterion, hooks, post, files, ind, <<Measured(ind)>>).fitness

\* C27: while a generation is evaluated and summarized, the fitness recorded
\* for index i is the fitness of the individual at population[i], be it
\* taken from the results cached for the children or measured afresh; for
\* generate below, equal to and above delete.
C27_RecordedFitnessIsOwn ==
    (pc \in {"ge_head", "ge_block", "ge_body", "ge_unblock", "ge_check",
             "ge_after", "g_summary"}) =>
        \A j \in 1..Len(evaluation_results) :
            evaluation_results[j][1] =
                FitnessOf(state.population[evaluation_results[j][2] + 1])

\* how often x occurs in the sequence
Occurrences(s, x) == Cardinality({i \in 1..Len(s) : s[i] = x})

AtLeastAsGood(a, b) ==
    \/ IsInfinite(b)
    \/ IsFinite(a) /\ AsGood(direction, a, b)

WeightOf(roulette, ix) ==
    (CHOOSE e \in {roulette[k] : k \in 1..Len(roulette)} : e[2] = ix)[1]

\* C31: in parent selection an individual whose fitness is Invalid never
\* receives a larger roulette weight than a feasible individual of the same
\* generation: in the roulette the selection step leaves for the child loop,
\* no entry of an invalid result outweighs an entry of a finite result.
C31_InvalidParentNeverOutweighs ==
    [][pc = "g_select" /\ pc' = "gc_head" =>
          \A i, j \in 1..Len(evaluation_results) :
              /\ IsInfinite(evaluation_results[i][1])
              /\ IsFinite(evaluation_results[j][1])
              => WeightOf(evaluation_results', i - 1)
                     <= WeightOf(evaluation_results', j - 1)]_vars

\* C32: in hole selection an individual whose fitness is Invalid receives a
\* roulette weight at least as large as that of every feasible individual
\* of the same generation: in the roulette the selection step builds for
\* the holes, every entry of an invalid result weighs at least as much as
\* every entry of a finite result.
C32_InvalidHoleWeighsMost ==
    [][pc = "g_select" =>
          LET worst == Boundaries(direction,
                                  FiniteResults(evaluation_results)).worst
              inverted == Inverted(direction, evaluation_results, worst, 0)
          IN  \A i, j \in 1..Len(evaluation_results) :
                  /\ IsInfinite(evaluation_results[i][1])
                  /\ IsFinite(evaluation_results[j][1])
                  => WeightOf(inverted, i - 1) >= WeightOf(inverted, j - 1)]_vars

(***************************************************************************)
(* Properties of the generations.                                          *)
(***************************************************************************)
\* C33: in generation 1 an individual whose evaluation is infeasible is
\* replaced at the same index by a fresh sample and that index is evaluated
\* again: the step pushes and records nothing and moves no other member; a
\* feasible one is pushed and recorded.  So every fitness recorded and
\* pushed for generation 1 is finite, and the population keeps its size.
C33_FirstGenerationResamples ==
    [][(pc = "ge_body" /\ state.generation = 1
           /\ pc' \notin {"ge_body", "panic"}) =>
          LET old == state.population
              new == state'.population
              result == FitnessOf(old[index + 1])
          IN  /\ Len(new) = Len(old)
              /\ \A i \in 1..Len(old) : i # index + 1 => new[i] = old[i]
              /\ IF result \in {INFINITY, NEG_INFINITY}
                 THEN /\ new[index + 1] \in Sample(profile)
                      /\ index' = index /\ pc' = "ge_head"
                      /\ ranking' = ranking
                      /\ evaluation_results' = evaluation_results
                 ELSE /\ new = old
                      /\ index' = index + 1
                      /\ evaluation_results' =
                             Append(evaluation_results, <<result, index>>)
              /\ \A i \in 1..Len(evaluation_results') :
                     evaluation_results'[i][1] \notin {INFINITY, NEG_INFINITY}
              /\ \A i \in 1..Len(ranking'.heap.data) :
                     ranking'.heap.data[i].fitness
                         \notin {INFINITY, NEG_INFINITY}]_vars

\* C33 witness: in generation 1 the evaluation of a member was infeasible,
\* another individual stands at its index now, and the loop is about to
\* evaluate that index again.
C33_Witness ==
    /\ pc = "ge_head" /\ state.generation = 1 /\ index < len
    /\ lastEval # None
    /\ HookInvalidates(hooks, lastEval.individual)
    /\ state.population[index + 1] # lastEval.individual

\* C34: the child phase ends with exactly `generate` children, each of
\* which evaluated to a finite fitness, and that fitness is the one cached
\* under the key the child was given.
C34_ChildPhaseYieldsGenerate ==
    pc = "g_replace" =>
        /\ Len(children) = options.generate.value
        /\ \A i \in 1..Len(children) :
               LET key == IF i - 1 < options.delete.value
                          THEN holes[i] ELSE i - 1
               IN  /\ FitnessOf(children[i]) \notin {INFINITY, NEG_INFINITY}
                   /\ key \in DOMAIN temp_results
                   /\ temp_results[key] = FitnessOf(children[i])

\* the fitness a strictly improves on b under the direction
Improves(a, b) == IF direction = "Minimize" THEN a < b ELSE a > b

\* the best of the finite fitnesses among the results, the direction's worst
\* when there is none
RECURSIVE BestOf(_, _)
BestOf(results, acc) ==
    IF results = <<>> THEN acc
    ELSE BestOf(Tail(results),
                IF /\ Head(results)[1] \notin {INFINITY, NEG_INFINITY}
                   /\ Improves(Head(results)[1], acc)
                THEN Head(results)[1] ELSE acc)

\* the summary of a generation of a run with an endurance threshold, the
\* best of the earlier generations being `earlier`: the counter is 0 when
\* the generation's best strictly improves on it and one larger than before
\* otherwise, and the loop is left exactly when the counter has reached the
\* threshold (or the generation limit is passed)
EnduranceStep(earlier) ==
    (/\ pc = "g_summary" /\ pc' \in {"g_select", "g_end"}
     /\ options.terminate.endure # None) =>
        LET best == BestOf(evaluation_results,
                           IF direction = "Minimize" THEN INFINITY
                           ELSE NEG_INFINITY)
            reached == state'.count = options.terminate.endure.some
        IN  /\ state'.count = IF Improves(best, earlier) THEN 0
                              ELSE state.count + 1
            /\ reached => pc' = "g_end"
            /\ (pc' = "g_end" /\ ~reached) =>
                   /\ options.terminate.limit # None
                   /\ state'.generation > options.terminate.limit.some

\* C35 as stated: with an endurance threshold E the counter is 0 after a
\* generation whose best strictly improves on the best of all generations
\* summarized before, in this run and in the runs it was resumed from, and
\* one larger than before otherwise; the loop stops at the first generation
\* at which the counter reaches E.
C35_EnduranceCountsAllGenerations == [][EnduranceStep(best_ever)]_vars

\* C35, amended: with an endurance threshold E the counter is 0 after a
\* generation whose best strictly improves on the best of the generations
\* summarized before in this run of the program, and one larger than before
\* otherwise; the loop stops at the first generation at which the counter
\* reaches E.  A run resumed from a checkpoint starts with the counter of
\* the checkpoint and with no earlier best.
C35_EnduranceCountsThisRun ==
    [][EnduranceStep(BestOf([i \in 1..Len(history) |->
                                 <<history[i].current_best, i>>],
                            IF direction = "Minimize" THEN INFINITY
                            ELSE NEG_INFINITY))]_vars

\* C35 witness: generation 2 brought no improvement on generation 1, the
\* counter reached the threshold 1 and the loop was left for the results.
C35_Witness ==
    /\ pc = "g_end" /\ ~is_canceled
    /\ options.terminate.endure = Some(1)
    /\ state.generation = 2 /\ state.count = 1
    /\ Len(history) = 2
    /\ ~Improves(history[2].current_best, history[1].current_best)

\* the run is fresh and was not cancelled, and a generation limit is set
FreshWithLimit ==
    /\ runs = 1 /\ ~is_canceled /\ pc # "start"
    /\ options.terminate.limit # None

\* the loop was left because the endurance counter reached its threshold
EnduranceStop ==
    /\ options.terminate.endure # None
    /\ state.count = options.terminate.endure.some

\* no children are bred after the evaluation of generation L (the generation
\* is counted up before the breeding starts)
NoBreedingPastLimit ==
    (pc \in {"g_select", "gc_head", "gc_breed", "gc_block", "gc_body",
             "gc_unblock", "gc_push", "g_replace"}) =>
        state.generation <= options.terminate.limit.some

\* where the loop is left, L generations have been evaluated and summarized,
\* and what is returned are the results with the L summaries
LeavesAfterLimit ==
    (pc \in {"g_end", "exit"} /\ ~EnduranceStop) =>
        /\ Len(history) = options.terminate.limit.some
        /\ state.generation = options.terminate.limit.some + 1
        /\ pc = "exit" =>
               /\ output.union = "First"
               /\ Len(output.value.history) = options.terminate.limit.some

\* C36: with a generation limit L, and no cancel and no endurance stop, a
\* fresh genetic run evaluates the population for exactly the generations 1
\* to L: it breeds no children in generation L, it leaves the loop right
\* after the summary of generation L and returns the results, and nothing
\* but a NaN from the runner ends it before.
C36_FreshRunEvaluatesToLimit ==
    FreshWithLimit =>
        /\ NoBreedingPastLimit
        /\ LeavesAfterLimit
        /\ pc = "panic" => \E v \in DOMAIN kernel : kernel[v] = NaN

\* C37: if SIGQUIT is delivered while the strategy loop is running and
\* every native call returns, the run eventually leaves the loop and returns
\* a Checkpoint, whatever the evaluations produce: from every point of the
\* loop at which the flag is set, the run comes to return the Checkpoint,
\* unless an assertion aborts it.
C37_SigquitYieldsCheckpoint ==
    (is_canceled /\ pc \notin {"start", "g_end", "exit", "panic"})
        ~> (pc = "panic" \/ (pc = "exit" /\ output.union = "Second"))

(***************************************************************************)
(* Properties of the repetitions of an evaluation.                         *)
(***************************************************************************)
\* C38: the fitness collected for repetition i of an evaluation is the
\* value the runner reported during repetition i: in an evaluation that
\* ran its repetitions to the end, every repetition reported a result and
\* the i-th fitness collected is the i-th result reported.
C38_CollectedIsReportedInRepetition ==
    (lastEval # None /\ lastEval.log.loaded /\ lastEval.end = "done") =>
        \A i \in 1..repetition :
            /\ kernel[i].kind # "silent"
            /\ lastEval.fitnesses[i] = Unwrap(criterion, kernel[i])

(***************************************************************************)
(* Properties of the ranking of a genetic run.                             *)
(***************************************************************************)
\* the number of entries the ranking r holds for the individual
Entries(r, ind) ==
    Cardinality({i \in 1..Len(r.heap.data) : r.heap.data[i].individual = ind})

\* C39: the Ranking never holds two entries for the same Individual.  A
\* member that was in the population of generation 1 and has stayed at its
\* index (it was no hole, and the replace step removed nothing), and for
\* which the ranking holds at most one entry, is pushed in generation 2:
\* the ranking holds at most one entry for it afterwards.
C39_OneEntryPerIndividual ==
    [][(/\ pc = "ge_body" /\ pc' = "ge_unblock"
        /\ state.generation = 2 /\ Len(history) = 1
        /\ config.generate.value >= config.delete.value
        /\ index < config.initial
        /\ \A h \in 1..Len(holes) : holes[h] # index
        /\ Entries(ranking, state.population[index + 1]) <= 1)
       => Entries(ranking', state.population[index + 1]) <= 1]_vars

=============================================================================
